---- MODULE Spec2Model ----
(***************************************************************************)
(* SpeechPal: the real-time relay (WebSocketService), the in-memory store  *)
(* (MemStorage) and the conversation service (OpenAIService) as a state    *)
(* machine.                                                                *)
(*                                                                         *)
(* Every 'message' event starts an async handler that nobody awaits        *)
(* (ws.on('message', async ...)), so a handler is a task with a program    *)
(* counter; each `await` of the source is a suspension point, and the      *)
(* code between two awaits is one atomic action.  An async store method    *)
(* without an inner await (createSession, createMessage, getSession,       *)
(* updateSession) has its effect at the call, before the suspension.       *)
(*                                                                         *)
(* Specifications: Spec (the relay over the store), SpecHelpers (the pure  *)
(* helper functions), SpecSessions, SpecMessages and SpecProgress (the     *)
(* REST routes over the store), SpecService (concurrent calls on the       *)
(* conversation service singleton) and SpecConversation (the REST          *)
(* conversation endpoint).  Each one leaves the other components at rest.  *)
(***************************************************************************)
EXTENDS Integers, Sequences, FiniteSets, TLC

VARIABLES
    connections,    \* WebSocketService.connections: the registered connection ids
    wsSessions,     \* WebSocketService.sessions: connection id -> session id (Null: no entry)
    readyState,     \* ws.readyState of each connection's socket
    nextConn,       \* number of connections accepted so far
    storeSessions,  \* MemStorage.sessions: sequence of Session records, id = index
    storeMessages,  \* MemStorage.messages in insertion order
    received,       \* number of 'message' events dispatched so far
    tasks,          \* the async handlers that reached an await, in the order they started
    outbox,         \* envelopes delivered by ws.send, per connection, in order
    clock,          \* the reading of the system clock (new Date())
    userProgress,   \* MemStorage.userProgress: the Map's entries (user id, UserProgress)
    conversationHistory, \* OpenAIService.conversationHistory of the exported singleton
    calls,          \* the processUserMessage calls made on the singleton, in call order
    requests,       \* the POST /api/conversation/message requests, in arrival order
    lastCall,       \* the latest store, route or helper call: arguments and value returned
    storeTopics,    \* MemStorage.topics: the ids of the seeded topics
    uiState,        \* VoiceChat: the React state of the latest render
    recognizer,     \* SimpleSpeechRecognition: whether it listens, and whose closures it calls
    clientTasks,    \* VoiceChat: pending permission requests, timers and sends, in start order
    hook,           \* useWebSocket: its state and refs
    hookSockets,    \* the WebSockets the hook created, in creation order
    hookTimers      \* the reconnect timers that are pending

relayVars == << connections, wsSessions, readyState, nextConn, received, tasks, outbox >>
storeVars == << storeSessions, storeMessages, userProgress, clock >>
serviceVars == << conversationHistory, calls, requests >>
hookVars == << hook, hookSockets, hookTimers >>
clientVars == << uiState, recognizer, clientTasks, hookVars >>
\* what the relay specification leaves alone
auxVars == << clock, userProgress, conversationHistory, calls, requests, lastCall,
             storeTopics, uiState, recognizer, clientTasks, hookVars >>

\* what a relay handler that records its arguments in lastCall leaves alone
auxVarsButCall == << clock, userProgress, conversationHistory, calls, requests,
                    storeTopics, uiState, recognizer, clientTasks, hookVars >>

vars == << connections, wsSessions, readyState, nextConn,
           storeSessions, storeMessages, received, tasks, outbox,
           clock, userProgress, conversationHistory, calls, requests, lastCall,
           storeTopics, uiState, recognizer, clientTasks, hook, hookSockets, hookTimers >>

(***************************************************************************)
(* Bounds of the model.                                                    *)
(***************************************************************************)
MaxConns == 2
MaxEvents == 2
MaxCorr == 1

ConnIds == 1..MaxConns

(***************************************************************************)
(* null / undefined: a nullable value is a tuple of length at most one.    *)
(***************************************************************************)
Null == << >>
Some(x) == << x >>
IsNull(x) == x = Null
Val(x) == x[1]
\* JS `x || 0` on a nullable number
OrZero(x) == IF IsNull(x) \/ Val(x) = 0 THEN 0 ELSE Val(x)
\* JS `x || null` on a nullable number: 0 is falsy
NumOrNull(x) == IF IsNull(x) \/ Val(x) = 0 THEN Null ELSE x

(***************************************************************************)
(* Inputs.  A text is a sequence of words; the envelope's text fields are  *)
(* nullable (absent field = undefined).                                    *)
(***************************************************************************)
Texts == { << "I", "are", "happy" >> }
DefaultText == << "I", "want", "to", "practice", "my", "English", "speaking", "skills." >>
TopicIds == { "travel" }
UnknownTags == { "correction", "session_update", "ping" }

\* userText.split(' ').length: the empty string splits into one empty word
SplitLength(text) == IF Len(text) = 0 THEN 1 ELSE Len(text)

\* Math.round for a rational n/d with d > 0: floor(n/d + 1/2)
RoundDiv(n, d) == (2 * n + d) \div (2 * d)

Max(a, b) == IF a >= b THEN a ELSE b
Min(a, b) == IF a <= b THEN a ELSE b

calculateAccuracy(corrections, wordCount) ==
    IF wordCount = 0 THEN 100
    ELSE Max(0, Min(100, RoundDiv(100 * (wordCount - corrections), wordCount)))


(***************************************************************************)
(* MemStorage.                                                             *)
(***************************************************************************)
\* JS `x || null` on a nullable string: the empty string is falsy
StrOrNull(x) == IF IsNull(x) \/ Val(x) = "" THEN Null ELSE x

\* The Session record createSession builds from a draft; id is the fresh identifier.
NewSession(id, draft) ==
    [ id               |-> id,
      userId           |-> StrOrNull(draft.userId),
      messagesCount    |-> NumOrNull(draft.messagesCount),
      correctionsCount |-> NumOrNull(draft.correctionsCount),
      accuracyScore    |-> NumOrNull(draft.accuracyScore),
      topicId          |-> StrOrNull(draft.topicId),
      isActive         |-> IF IsNull(draft.isActive) THEN TRUE ELSE Val(draft.isActive) ]

\* randomUUID(): an identifier no session has had before
FreshSessionId(ss) == Len(ss) + 1

createSession(ss, draft) == Append(ss, NewSession(FreshSessionId(ss), draft))

\* sessions.get(id), as a nullable
getSession(ss, id) == IF id \in DOMAIN ss THEN Some(ss[id]) ELSE Null

\* Mutant of Merge: the stored fields win over the updates
MergeKeepingOld(rec, updates) ==
    [ f \in DOMAIN rec \cup DOMAIN updates |->
        IF f \in DOMAIN rec THEN rec[f] ELSE updates[f] ]

\* { ...session, ...updates }
Merge(rec, updates) ==
    [ f \in DOMAIN rec \cup DOMAIN updates |->
        IF f \in DOMAIN updates THEN updates[f] ELSE rec[f] ]

\* Mutant of updateSession: an unknown id gets a new session
updateSessionOrCreate(ss, id, updates) ==
    IF id \in DOMAIN ss THEN [ ss EXCEPT ![id] = Merge(@, updates) ]
    ELSE Append(ss, Merge([ id |-> Len(ss) + 1, userId |-> Null, messagesCount |-> Null,
                            correctionsCount |-> Null, accuracyScore |-> Null,
                            topicId |-> Null, isActive |-> TRUE ], updates))

\* updateSession: the sessions map afterwards
updateSession(ss, id, updates) ==
    IF id \in DOMAIN ss THEN [ ss EXCEPT ![id] = Merge(@, updates) ] ELSE ss

\* updateSession: the value it returns, undefined for an unknown id
updatedSession(ss, id, updates) ==
    IF id \in DOMAIN ss THEN Some(updateSession(ss, id, updates)[id]) ELSE Null

\* The Message record createMessage builds: id is the fresh identifier, now the
\* clock reading.  A corrections list is kept as its length; `turn` records
\* which handler made the call (0: none).
NewMessage(id, draft, now) ==
    [ id          |-> id,
      sessionId   |-> draft.sessionId,
      type        |-> draft.type,
      content     |-> draft.content,
      timestamp   |-> now,
      corrections |-> draft.corrections,
      turn        |-> draft.turn ]

\* randomUUID(): an identifier no message has had before
FreshMessageId(ms) == Len(ms) + 1

createMessage(ms, draft) == Append(ms, NewMessage(FreshMessageId(ms), draft, clock))

\* Where Array.prototype.sort (stable) puts m among messages already in order
InsertByTimestamp(sorted, m) ==
    LET n == Cardinality({ i \in DOMAIN sorted : sorted[i].timestamp <= m.timestamp })
    IN  SubSeq(sorted, 1, n) \o << m >> \o SubSeq(sorted, n + 1, Len(sorted))

RECURSIVE SortByTimestamp(_)
SortByTimestamp(ms) ==
    IF ms = << >> THEN << >>
    ELSE InsertByTimestamp(SortByTimestamp(SubSeq(ms, 1, Len(ms) - 1)), ms[Len(ms)])

\* messages.values() in insertion order, filtered by session
filterBySession(ms, sid) == SelectSeq(ms, LAMBDA m : m.sessionId = sid)

\* Mutant of getSessionMessages: the filtered messages are returned unsorted
getSessionMessagesUnsorted(ms, sid) == filterBySession(ms, sid)

\* getSessionMessages: the messages of one session, sorted by timestamp
getSessionMessages(ms, sid) == SortByTimestamp(filterBySession(ms, sid))

(***************************************************************************)
(* WebSocketService: helpers.                                              *)
(***************************************************************************)
Envelope(type, status, sessionId, corrections, message, turn) ==
    [ type |-> type, status |-> status, sessionId |-> sessionId,
      corrections |-> corrections, message |-> message, turn |-> turn ]

\* sendMessage: ws.send only while the socket is OPEN
sendMessage(ob, c, env) ==
    IF readyState[c] = "OPEN" THEN [ ob EXCEPT ![c] = Append(@, env) ] ELSE ob

\* Mutant of sendError: the failure is logged but nothing is sent
sendErrorDropped(ob, c, errorMessage, turn) == ob

sendError(ob, c, errorMessage, turn) ==
    sendMessage(ob, c, Envelope("session_update", Some("error"), Null, Null, errorMessage, turn))

\* Mutant of sessionOf: a connection without a session resumes the session the
\* envelope names
sessionOfOrEnvelope(c, envSid) ==
    IF ~IsNull(wsSessions[c]) THEN wsSessions[c]
    ELSE IF ~IsNull(envSid) /\ Val(envSid) \in DOMAIN storeSessions THEN envSid
    ELSE Null

\* this.sessions.get(connectionId); the envelope's own sessionId field is not read
sessionOf(c, envSid) == wsSessions[c]

\* this.sessions.set(connectionId, sessionId)
setSession(m, c, sid) == [ m EXCEPT ![c] = Some(sid) ]

\* Mutant of deleteSession: the entry is left in the map
deleteSessionForgotten(m, c) == m

\* this.sessions.delete(connectionId)
deleteSession(m, c) == [ m EXCEPT ![c] = Null ]

\* this.connections.delete(connectionId)
deleteConnection(cs, c) == cs \ {c}

\* The draft handleAudioStart and handleTextMessage pass to createSession
GuestDraft(topicId) ==
    [ userId |-> Some("guest"), messagesCount |-> Some(0), correctionsCount |-> Some(0),
      accuracyScore |-> Some(0), topicId |-> topicId, isActive |-> Some(TRUE) ]

\* Mutant of UserDraft: the user's text is not filed
UserDraftUntexted(t, sid, text) ==
    [ sessionId |-> sid, type |-> "user", content |-> Null, corrections |-> Null, turn |-> t ]

\* The user message processUserInput passes to createMessage
UserDraft(t, sid, text) ==
    [ sessionId |-> sid, type |-> "user", content |-> text, corrections |-> Null, turn |-> t ]

\* Mutant of BotDraft: the reply is filed with the user's type tag
BotDraftAsUser(t, sid, k) ==
    [ sessionId |-> sid, type |-> "user", content |-> Some(<< "reply" >>),
      corrections |-> Some(k), turn |-> t ]

BotDraft(t, sid, k) ==
    [ sessionId |-> sid, type |-> "bot", content |-> Some(<< "reply" >>),
      corrections |-> Some(k), turn |-> t ]

\* The fields processUserInput passes to updateSession
StatsUpdate(session, k, text) ==
    [ messagesCount    |-> Some(OrZero(session.messagesCount) + 2),
      correctionsCount |-> Some(OrZero(session.correctionsCount) + k),
      accuracyScore    |-> Some(calculateAccuracy(k, SplitLength(text))) ]

\* Mutant of hasCorrections: a single correction is not reported
hasManyCorrections(k) == k > 1

\* `if (response.corrections.length > 0)`
hasCorrections(k) == k > 0

\* The envelopes a finished turn pushes: the reply, then the corrections if any
replyEnvelopes(ob, c, t, sid, k) ==
    LET reply == Envelope("text_message", Null, Some(sid), Some(k), "bot", t)
        corr  == Envelope("correction", Null, Some(sid), Some(k), "corrections", t)
        ob1   == sendMessage(ob, c, reply)
    IN  IF hasCorrections(k) THEN sendMessage(ob1, c, corr) ELSE ob1

\* message.payload?.transcribedText || "I want to practice my English speaking skills."
transcribedOrDefault(tt) == IF IsNull(tt) \/ Val(tt) = << >> THEN DefaultText ELSE Val(tt)

(***************************************************************************)
(* Handler tasks.                                                          *)
(***************************************************************************)
\* conn, text, hasPayload: the handler's arguments; sid, corr, snap: its
\* locals sessionId, response.corrections.length and session; the rest is
\* bookkeeping: the session it created, how it ended, whether it updated the
\* counters, and whether its connection went away during a provider call.
NewTask(c, text, hasPayload, pc, sid, created) ==
    [ conn |-> c, text |-> text, hasPayload |-> hasPayload,
      pc |-> pc, sid |-> sid, created |-> created,
      corr |-> 0, snap |-> Null, result |-> "none", updated |-> FALSE,
      closedInCall |-> FALSE ]

\* A handler that has returned: its arguments and locals are gone
Finish(rec, result) ==
    [ rec EXCEPT !.pc = "done", !.result = result, !.text = Null, !.hasPayload = TRUE,
                 !.sid = Null, !.corr = 0, !.snap = Null ]

\* A 'message' event is delivered on a registered socket that is OPEN, so
\* handleMessage's guard `!ws || ws.readyState !== WebSocket.OPEN` passes.
CanReceive(c) ==
    /\ c \in connections
    /\ readyState[c] = "OPEN"
    /\ received < MaxEvents

NextTask == Len(tasks) + 1

(***************************************************************************)
(* The state of the other components while the relay runs: the clock       *)
(* stands still, nobody has a progress record, the singleton's history     *)
(* holds the entry its constructor pushed, and no call has been made.      *)
(***************************************************************************)
\* The entry the OpenAIService constructor pushes.  An entry carries its
\* role and content and, as bookkeeping, the call that pushed it (0: none).
SystemEntry == [ role |-> "assistant", content |-> << "system" >>, call |-> 0 ]
InitialHistory == << SystemEntry >>

\* The ids of the topics the store is seeded with
CatalogTopicIds == { "daily-routines", "travel", "hobbies", "food-cooking", "books-movies" }

\* VoiceChat's useState defaults
InitialUi ==
    [ isListening |-> FALSE, voiceSessionActive |-> FALSE, isSpeaking |-> FALSE,
      useTextMode |-> FALSE ]

\* A recognizer that was never started: it does not listen, and `render` is
\* the React state captured by the callbacks it was last started with
IdleRecognizer == [ listening |-> FALSE, engine |-> "idle", render |-> InitialUi ]

\* A WebSocket: its readyState and whether its open event was delivered
NewSocket == [ readyState |-> "CONNECTING", opened |-> FALSE ]

\* useWebSocket after its mount effect: shouldReconnectRef is set and
\* connect() has created the first socket.  scheduled counts the reconnect
\* timers armed so far; quiet tells that disconnect() was called or a socket
\* closed with code 1000 and connect() was not called since.
MountedHook ==
    [ isConnected |-> FALSE, isConnecting |-> TRUE, socketRef |-> Some(1),
      reconnectTimeoutRef |-> Null, reconnectAttempts |-> 0, shouldReconnect |-> TRUE,
      scheduled |-> 0, quiet |-> FALSE ]

ClientIdle ==
    /\ uiState = InitialUi
    /\ recognizer = IdleRecognizer
    /\ clientTasks = << >>
    /\ hook = MountedHook
    /\ hookSockets = << NewSocket >>
    /\ hookTimers = {}

\* new Map(): no entries.  A Map is the sequence of its entries in insertion
\* order, each a record of key and value.
NewMap == << >>

AuxInit ==
    /\ clock = 0
    /\ userProgress = NewMap
    /\ conversationHistory = InitialHistory
    /\ calls = << >>
    /\ requests = << >>
    /\ lastCall = Null
    /\ storeTopics = CatalogTopicIds
    /\ ClientIdle

TypeOK ==
    /\ connections \subseteq ConnIds
    /\ DOMAIN wsSessions = ConnIds
    /\ nextConn \in 0..MaxConns
    /\ received \in 0..MaxEvents
    /\ Len(tasks) <= received

Init ==
    /\ connections = {}
    /\ wsSessions = [ c \in ConnIds |-> Null ]
    /\ readyState = [ c \in ConnIds |-> "NONE" ]
    /\ nextConn = 0
    /\ storeSessions = << >>
    /\ storeMessages = << >>
    /\ received = 0
    /\ tasks = << >>
    /\ outbox = [ c \in ConnIds |-> << >> ]
    /\ AuxInit

\* wss.on('connection'): register the socket and send the welcome message
Connect ==
    /\ nextConn < MaxConns
    /\ LET c == nextConn + 1 IN
        /\ nextConn' = c
        /\ connections' = connections \cup {c}
        /\ readyState' = [ readyState EXCEPT ![c] = "OPEN" ]
        /\ outbox' = [ outbox EXCEPT ![c] =
                Append(@, Envelope("session_update", Some("connected"), Null, Null, "welcome", 0)) ]
    /\ UNCHANGED << wsSessions, storeSessions, storeMessages, received, tasks >>
    /\ UNCHANGED auxVars


SetTask(t, rec) == [ tasks EXCEPT ![t] = rec ]

\* ws.on('message'): JSON.parse throws; the catch sends 'Invalid message format'
ReceiveBadJson(c) ==
    /\ CanReceive(c)
    /\ received' = received + 1
    /\ outbox' = sendError(outbox, c, "Invalid message format", 0)
    /\ UNCHANGED << connections, wsSessions, readyState, nextConn, storeSessions,
                    storeMessages, tasks >>
    /\ UNCHANGED auxVars

\* The frame is the JSON text `null`: `message.type` throws a TypeError inside
\* handleMessage's try, and its catch sends 'Failed to process message'
ReceiveNullJson(c) ==
    /\ CanReceive(c)
    /\ received' = received + 1
    /\ outbox' = sendError(outbox, c, "Failed to process message", 0)
    /\ UNCHANGED << connections, wsSessions, readyState, nextConn, storeSessions,
                    storeMessages, tasks >>
    /\ UNCHANGED auxVars

\* handleMessage, default branch of the switch
ReceiveUnknown(c, tag) ==
    /\ CanReceive(c)
    /\ received' = received + 1
    /\ outbox' = sendError(outbox, c, "Unknown message type", 0)
    /\ UNCHANGED << connections, wsSessions, readyState, nextConn, storeSessions,
                    storeMessages, tasks >>
    /\ UNCHANGED auxVars

\* Mutant of chunkEnvelopes: the chunk is acknowledged
chunkEnvelopesAcked(ob, c) ==
    sendMessage(ob, c, Envelope("session_update", Some("processing"), wsSessions[c], Null,
                                "chunk", 0))

\* What handleAudioChunk sends: it only logs
chunkEnvelopes(ob, c) == ob

\* handleAudioChunk: console.log only.  lastCall records the event.
ReceiveAudioChunk(c) ==
    /\ CanReceive(c)
    /\ received' = received + 1
    /\ outbox' = chunkEnvelopes(outbox, c)
    /\ lastCall' = Some([ fn |-> "audio_chunk", conn |-> c, at |-> received + 1 ])
    /\ UNCHANGED << connections, wsSessions, readyState, nextConn, storeSessions,
                    storeMessages, tasks >>
    /\ UNCHANGED auxVarsButCall

\* handleAudioStart up to `await storage.createSession`, or to its end when
\* the connection already has a session
ReceiveAudioStart(c, topicId, envSid) ==
    /\ CanReceive(c)
    /\ received' = received + 1
    /\ LET sid == sessionOf(c, envSid) IN
        IF IsNull(sid)
        THEN /\ storeSessions' = createSession(storeSessions, GuestDraft(topicId))
             /\ tasks' = Append(tasks, NewTask(c, Null, TRUE, "createdAS",
                                Some(FreshSessionId(storeSessions)),
                                Some(FreshSessionId(storeSessions))))
             /\ UNCHANGED outbox
        ELSE /\ outbox' = sendMessage(outbox, c,
                    Envelope("session_update", Some("recording"), sid, Null, "listening", 0))
             /\ UNCHANGED << storeSessions, tasks >>
    /\ UNCHANGED << connections, wsSessions, readyState, nextConn, storeMessages >>
    /\ UNCHANGED auxVars

\* handleAudioStart after `await storage.createSession`
ResumeAudioStart(t) ==
    /\ t \in DOMAIN tasks
    /\ tasks[t].pc = "createdAS"
    /\ LET c == tasks[t].conn IN
        /\ wsSessions' = setSession(wsSessions, c, Val(tasks[t].sid))
        /\ outbox' = sendMessage(outbox, c,
                Envelope("session_update", Some("recording"), tasks[t].sid, Null, "listening", t))
    /\ tasks' = SetTask(t, Finish(tasks[t], "started"))
    /\ UNCHANGED << connections, readyState, nextConn, storeSessions, storeMessages, received >>
    /\ UNCHANGED auxVars

\* processUserInput up to `await storage.createMessage` of the user message, for
\* the handler rec on session sid with the text userText; it returns at once
\* when the connection is no longer registered
BeginTurn(rec, sid, userText) ==
    IF rec.conn \in connections
    THEN [ rec EXCEPT !.pc = "userSaved", !.sid = Some(sid), !.text = userText ]
    ELSE Finish(rec, "ignored")

BeginTurnMessages(c, t, sid, userText) ==
    IF c \in connections
    THEN createMessage(storeMessages, UserDraft(t, sid, userText))
    ELSE storeMessages

\* Mutant of droppedAudioEnd: the missing session is reported
droppedAudioEndReported(ob, c) == sendError(ob, c, "No active session", 0)

\* What handleAudioEnd sends when `if (!sessionId) return` is taken
droppedAudioEnd(ob, c) == ob

\* handleAudioEnd.  lastCall records the payload's transcribedText and the
\* turn that was started for it, 0 when none was.
ReceiveAudioEnd(c, transcribedText) ==
    /\ CanReceive(c)
    /\ received' = received + 1
    /\ LET sid == sessionOf(c, Null)
           userText == Some(transcribedOrDefault(transcribedText))
       IN
        IF IsNull(sid)
        THEN /\ outbox' = droppedAudioEnd(outbox, c)
             /\ lastCall' = Some([ fn |-> "audio_end", conn |-> c, at |-> received + 1,
                                   transcribedText |-> transcribedText, turn |-> 0 ])
             /\ UNCHANGED << tasks, storeMessages >>
        ELSE /\ tasks' = Append(tasks, BeginTurn(NewTask(c, userText, TRUE, "done",
                                                         sid, Null), Val(sid), userText))
             /\ storeMessages' = BeginTurnMessages(c, NextTask, Val(sid), userText)
             /\ lastCall' = Some([ fn |-> "audio_end", conn |-> c, at |-> received + 1,
                                   transcribedText |-> transcribedText, turn |-> NextTask ])
             /\ UNCHANGED outbox
    /\ UNCHANGED << connections, wsSessions, readyState, nextConn, storeSessions >>
    /\ UNCHANGED auxVarsButCall

\* handleTextMessage up to its first await.  `message.payload.text` throws a
\* TypeError when the envelope has no payload; handleMessage's catch sends
\* 'Failed to process message'.
ReceiveTextMessage(c, hasPayload, text, topicId, envSid) ==
    /\ CanReceive(c)
    /\ received' = received + 1
    /\ LET sid == sessionOf(c, envSid)
           new == NewTask(c, text, hasPayload, "done", sid, Null)
       IN
        IF IsNull(sid)
        THEN /\ storeSessions' = createSession(storeSessions, GuestDraft(topicId))
             /\ tasks' = Append(tasks, [ new EXCEPT !.pc = "createdTM",
                                           !.sid = Some(FreshSessionId(storeSessions)),
                                           !.created = Some(FreshSessionId(storeSessions)) ])
             /\ UNCHANGED << storeMessages, outbox >>
        ELSE IF ~hasPayload
        THEN /\ outbox' = sendError(outbox, c, "Failed to process message", 0)
             /\ UNCHANGED << storeSessions, storeMessages, tasks >>
        ELSE /\ tasks' = Append(tasks, BeginTurn(new, Val(sid), text))
             /\ storeMessages' = BeginTurnMessages(c, NextTask, Val(sid), text)
             /\ UNCHANGED << storeSessions, outbox >>
    /\ UNCHANGED << connections, wsSessions, readyState, nextConn >>
    /\ UNCHANGED auxVars

\* handleTextMessage after `await storage.createSession`
ResumeTextMessage(t) ==
    /\ t \in DOMAIN tasks
    /\ tasks[t].pc = "createdTM"
    /\ LET c == tasks[t].conn
           sid == Val(tasks[t].sid)
       IN
        /\ wsSessions' = setSession(wsSessions, c, sid)
        /\ IF ~tasks[t].hasPayload
           THEN /\ tasks' = SetTask(t, Finish(tasks[t], "threw"))
                /\ outbox' = sendError(outbox, c, "Failed to process message", t)
                /\ UNCHANGED storeMessages
           ELSE /\ tasks' = SetTask(t, BeginTurn(tasks[t], sid, tasks[t].text))
                /\ storeMessages' = BeginTurnMessages(c, t, sid, tasks[t].text)
                /\ UNCHANGED outbox
    /\ UNCHANGED << connections, readyState, nextConn, storeSessions, received >>
    /\ UNCHANGED auxVars

AtPc(t, pc) == t \in DOMAIN tasks /\ tasks[t].pc = pc

\* processUserInput after the user message is saved: processUserMessage is
\* called and suspends in analyzeGrammar's provider call
StartService(t) ==
    /\ AtPc(t, "userSaved")
    /\ tasks' = SetTask(t, [ tasks[t] EXCEPT !.pc = "grammar" ])
    /\ UNCHANGED << connections, wsSessions, readyState, nextConn, storeSessions,
                    storeMessages, received, outbox >>
    /\ UNCHANGED auxVars

\* analyzeGrammar returns k corrections; the reply-generation call is issued
GrammarReturns(t, k) ==
    /\ AtPc(t, "grammar")
    /\ tasks' = SetTask(t, [ tasks[t] EXCEPT !.pc = "reply", !.corr = k ])
    /\ UNCHANGED << connections, wsSessions, readyState, nextConn, storeSessions,
                    storeMessages, received, outbox >>
    /\ UNCHANGED auxVars

\* analyzeGrammar's call fails or its output does not parse: its catch returns []
GrammarFails(t) ==
    /\ AtPc(t, "grammar")
    /\ tasks' = SetTask(t, [ tasks[t] EXCEPT !.pc = "reply", !.corr = 0 ])
    /\ UNCHANGED << connections, wsSessions, readyState, nextConn, storeSessions,
                    storeMessages, received, outbox >>
    /\ UNCHANGED auxVars

\* Mutant of saveBotMessage: the reply is dropped when the connection is gone
saveBotMessageIfConnected(ms, t, sid, k) ==
    IF tasks[t].conn \in connections THEN createMessage(ms, BotDraft(t, sid, k)) ELSE ms

\* The store's messages after processUserMessage has returned to processUserInput
saveBotMessage(ms, t, sid, k) == createMessage(ms, BotDraft(t, sid, k))

\* The reply-generation call succeeds: processUserMessage returns and
\* processUserInput saves the bot message
ReplyReturns(t) ==
    /\ AtPc(t, "reply")
    /\ storeMessages' = saveBotMessage(storeMessages, t, Val(tasks[t].sid), tasks[t].corr)
    /\ tasks' = SetTask(t, [ tasks[t] EXCEPT !.pc = "botSaved" ])
    /\ UNCHANGED << connections, wsSessions, readyState, nextConn, storeSessions, received, outbox >>
    /\ UNCHANGED auxVars

\* What processUserInput's catch sends for a failed turn
turnFailure(ob, c, t) == sendError(ob, c, "Failed to process your message. Please try again.", t)

\* The reply-generation call fails: processUserMessage rethrows and
\* processUserInput's catch runs
ReplyFails(t) ==
    /\ AtPc(t, "reply")
    /\ outbox' = turnFailure(outbox, tasks[t].conn, t)
    /\ tasks' = SetTask(t, Finish(tasks[t], "failed"))
    /\ UNCHANGED << connections, wsSessions, readyState, nextConn, storeSessions, storeMessages,
                    received >>
    /\ UNCHANGED auxVars

\* `const session = await storage.getSession(sessionId)`: the record is read at the call
GetSession(t) ==
    /\ AtPc(t, "botSaved")
    /\ tasks' = SetTask(t, [ tasks[t] EXCEPT !.pc = "gotSession",
                                            !.snap = getSession(storeSessions, Val(tasks[t].sid)) ])
    /\ UNCHANGED << connections, wsSessions, readyState, nextConn, storeSessions,
                    storeMessages, received, outbox >>
    /\ UNCHANGED auxVars

\* `if (session) await storage.updateSession(...)`.  userText.split throws a
\* TypeError when the text is undefined, and the catch reports the turn as failed.
UpdateStats(t) ==
    /\ AtPc(t, "gotSession")
    /\ ~IsNull(tasks[t].snap)
    /\ IF IsNull(tasks[t].text)
       THEN /\ outbox' = turnFailure(outbox, tasks[t].conn, t)
            /\ tasks' = SetTask(t, Finish(tasks[t], "threw"))
            /\ UNCHANGED storeSessions
       ELSE /\ storeSessions' = updateSession(storeSessions, Val(tasks[t].sid),
                    StatsUpdate(Val(tasks[t].snap), tasks[t].corr, Val(tasks[t].text)))
            /\ tasks' = SetTask(t, [ tasks[t] EXCEPT !.pc = "updated", !.updated = TRUE,
                                                    !.snap = Null ])
            /\ UNCHANGED outbox
    /\ UNCHANGED << connections, wsSessions, readyState, nextConn, storeMessages, received >>
    /\ UNCHANGED auxVars

\* The end of processUserInput's try block: the reply and the corrections are sent
SendReply(t) ==
    /\ \/ AtPc(t, "updated")
       \/ AtPc(t, "gotSession") /\ IsNull(tasks[t].snap)
    /\ outbox' = replyEnvelopes(outbox, tasks[t].conn, t, Val(tasks[t].sid), tasks[t].corr)
    /\ tasks' = SetTask(t, Finish(tasks[t], "ok"))
    /\ UNCHANGED << connections, wsSessions, readyState, nextConn, storeSessions, storeMessages,
                    received >>
    /\ UNCHANGED auxVars

\* Bookkeeping: the handlers of connection c that are waiting for the provider
\* when c goes away
MarkClosed(c) ==
    [ t \in DOMAIN tasks |->
        IF tasks[t].conn = c /\ tasks[t].pc \in { "grammar", "reply" }
        THEN [ tasks[t] EXCEPT !.closedInCall = TRUE ]
        ELSE tasks[t] ]

\* ws.on('close')
OnClose(c) ==
    /\ readyState[c] \in { "OPEN", "CLOSING" }
    /\ readyState' = [ readyState EXCEPT ![c] = "CLOSED" ]
    /\ connections' = deleteConnection(connections, c)
    /\ wsSessions' = deleteSession(wsSessions, c)
    /\ tasks' = MarkClosed(c)
    /\ UNCHANGED << nextConn, storeSessions, storeMessages, received, outbox >>
    /\ UNCHANGED auxVars

\* ws.on('error'): the socket is already CLOSING when the event is emitted
OnError(c) ==
    /\ readyState[c] = "OPEN"
    /\ readyState' = [ readyState EXCEPT ![c] = "CLOSING" ]
    /\ connections' = deleteConnection(connections, c)
    /\ wsSessions' = deleteSession(wsSessions, c)
    /\ tasks' = MarkClosed(c)
    /\ UNCHANGED << nextConn, storeSessions, storeMessages, received, outbox >>
    /\ UNCHANGED auxVars

\* payload.transcribedText of audio_end: absent, empty or a text
TranscribedTexts == { Null, Some(<< >>) } \cup { Some(x) : x \in Texts }
\* payload.text of text_message
PayloadTexts == { Some(x) : x \in Texts }
NullableTopics == { Null } \cup { Some(x) : x \in TopicIds }
\* the envelope's optional sessionId: absent, or the id of the first session made
EnvelopeSessionIds == { Null, Some(1) }

Next ==
    \/ Connect
    \/ \E c \in ConnIds : ReceiveBadJson(c)
    \/ \E c \in ConnIds : ReceiveNullJson(c)
    \/ \E c \in ConnIds, tag \in UnknownTags : ReceiveUnknown(c, tag)
    \/ \E c \in ConnIds : ReceiveAudioChunk(c)
    \/ \E c \in ConnIds, tp \in NullableTopics, es \in EnvelopeSessionIds :
            ReceiveAudioStart(c, tp, es)
    \/ \E c \in ConnIds, tx \in TranscribedTexts : ReceiveAudioEnd(c, tx)
    \/ \E c \in ConnIds, tx \in PayloadTexts, tp \in NullableTopics, es \in EnvelopeSessionIds :
            ReceiveTextMessage(c, TRUE, tx, tp, es)
    \/ \E c \in ConnIds, es \in EnvelopeSessionIds : ReceiveTextMessage(c, FALSE, Null, Null, es)
    \/ \E t \in 1..MaxEvents : ResumeAudioStart(t)
    \/ \E t \in 1..MaxEvents : ResumeTextMessage(t)
    \/ \E t \in 1..MaxEvents : StartService(t)
    \/ \E t \in 1..MaxEvents, k \in 0..MaxCorr : GrammarReturns(t, k)
    \/ \E t \in 1..MaxEvents : GrammarFails(t)
    \/ \E t \in 1..MaxEvents : ReplyReturns(t)
    \/ \E t \in 1..MaxEvents : ReplyFails(t)
    \/ \E t \in 1..MaxEvents : GetSession(t)
    \/ \E t \in 1..MaxEvents : UpdateStats(t)
    \/ \E t \in 1..MaxEvents : SendReply(t)
    \/ \E c \in ConnIds : OnClose(c)
    \/ \E c \in ConnIds : OnError(c)

Spec == Init /\ [][Next]_vars


(***************************************************************************)
(* Properties.                                                             *)
(***************************************************************************)
TaskIds == DOMAIN tasks
Unfinished(t) == tasks[t].pc # "done"

\* The store's messages of one type that handler t persisted
TurnMessages(t, type) ==
    { i \in DOMAIN storeMessages : storeMessages[i].turn = t /\ storeMessages[i].type = type }

\* The envelopes of one type on connection c that handler t pushed
TurnEnvelopes(c, t, type) ==
    { i \in DOMAIN outbox[c] : outbox[c][i].turn = t /\ outbox[c][i].type = type }

AllTurnEnvelopes(c, t) == { i \in DOMAIN outbox[c] : outbox[c][i].turn = t }

\* The session ids handler-created for connection c
CreatedFor(c) == { Val(tasks[t].created) : t \in { u \in TaskIds : tasks[u].conn = c /\ ~IsNull(tasks[u].created) } }

IsErrorEnvelope(e) == e.type = "session_update" /\ e.status = Some("error")

RECURSIVE SumCorrections(_)
SumCorrections(ms) ==
    IF ms = << >> THEN 0
    ELSE (IF Head(ms).type = "bot" THEN OrZero(Head(ms).corrections) ELSE 0)
         + SumCorrections(Tail(ms))

\* C1 (as claimed): at most one session is ever created for a connection, and
\* the session id associated with a connection never changes once set.
C1_OneSessionPerConnection ==
    \A c \in ConnIds :
        /\ Cardinality({ t \in TaskIds : tasks[t].conn = c /\ ~IsNull(tasks[t].created) }) <= 1
        /\ ~IsNull(wsSessions[c]) => CreatedFor(c) = { Val(wsSessions[c]) }

\* C2 (as claimed): a turn whose reply generation failed pushes a reply envelope
\* with zero corrections and never an error envelope.
C2_NoErrorEnvelopeForProviderFailure ==
    \A t \in TaskIds : tasks[t].result = "failed" =>
        \A i \in AllTurnEnvelopes(tasks[t].conn, t) :
            LET e == outbox[tasks[t].conn][i] IN
                ~IsErrorEnvelope(e) /\ e.type = "text_message" /\ e.corrections = Some(0)

\* C3 (as claimed): whenever no turn is in progress for a session, its
\* messagesCount is the number of its persisted Messages and its correctionsCount
\* the total of the corrections of its bot Messages.
C3_CountersMatchMessages ==
    \A sid \in DOMAIN storeSessions :
        (\A t \in TaskIds : Unfinished(t) => tasks[t].sid # Some(sid)) =>
            /\ OrZero(storeSessions[sid].messagesCount)
                    = Len(getSessionMessages(storeMessages, sid))
            /\ OrZero(storeSessions[sid].correctionsCount)
                    = SumCorrections(getSessionMessages(storeMessages, sid))

\* C4 (as claimed): on one connection the handling of a later message begins
\* only after the handling of every earlier message has completed.
C4_SerializedPerConnection ==
    \A t1, t2 \in TaskIds :
        (t1 < t2 /\ tasks[t1].conn = tasks[t2].conn) => ~Unfinished(t1)

\* C5: when the connection went away during a provider call and the call then
\* succeeded, the bot Message is persisted, the session counters are updated by
\* the end of the turn, and no envelope of the turn is on any connection.
C5_ClosedTurnStillPersists ==
    \A t \in TaskIds :
        (tasks[t].closedInCall
            /\ (tasks[t].pc \in { "botSaved", "gotSession", "updated" } \/ tasks[t].result = "ok")) =>
            /\ Cardinality(TurnMessages(t, "bot")) = 1
            /\ \A c \in ConnIds : AllTurnEnvelopes(c, t) = {}
            /\ tasks[t].result = "ok" =>
                /\ tasks[t].updated
                /\ \A i \in TurnMessages(t, "bot") :
                    LET sid == storeMessages[i].sessionId IN
                        /\ sid \in DOMAIN storeSessions
                        /\ OrZero(storeSessions[sid].messagesCount) >= 2

C5_Witness ==
    \E t \in TaskIds :
        /\ tasks[t].closedInCall
        /\ tasks[t].result = "ok"
        /\ readyState[tasks[t].conn] = "CLOSED"


\* The first handler started on its connection
FirstOnConnection(t) == \A u \in TaskIds : u < t => tasks[u].conn # tasks[t].conn

\* C6: the first audio_start or text_message on a connection creates a session
\* of its own: a session of the store that no handler of another connection
\* created and that no other connection is or was mapped to, whatever sessionId
\* the envelope carries and whatever sessions closed connections had.
C6_FreshSessionPerConnection ==
    /\ \A t \in TaskIds : FirstOnConnection(t) =>
        /\ ~IsNull(tasks[t].created)
        /\ Val(tasks[t].created) \in DOMAIN storeSessions
        /\ \A u \in TaskIds : (u # t /\ ~IsNull(tasks[u].created)) =>
                tasks[u].created # tasks[t].created
    /\ \A c \in ConnIds : ~IsNull(wsSessions[c]) => Val(wsSessions[c]) \in CreatedFor(c)
    /\ \A c, d \in ConnIds : c # d => CreatedFor(c) \cap CreatedFor(d) = {}

C6_Witness ==
    \E t, u \in TaskIds :
        /\ t < u
        /\ tasks[t].conn # tasks[u].conn
        /\ FirstOnConnection(u)
        /\ readyState[tasks[t].conn] = "CLOSED"
        /\ 1 \in CreatedFor(tasks[t].conn)
        /\ wsSessions[tasks[u].conn] = tasks[u].created
        /\ tasks[u].created # Some(1)

\* C7: a close or error event removes the connection from the connection map
\* and from the connection-to-session map and leaves the store as it was.
C7_CloseKeepsStore ==
    [][ \A c \in ConnIds : (OnClose(c) \/ OnError(c)) =>
            /\ c \notin connections'
            /\ IsNull(wsSessions'[c])
            /\ storeSessions' = storeSessions
            /\ storeMessages' = storeMessages ]_vars

C7_Witness ==
    \E c \in ConnIds, sid \in DOMAIN storeSessions :
        /\ readyState[c] = "CLOSED"
        /\ sid \in CreatedFor(c)
        /\ storeSessions[sid].isActive
        /\ ~IsNull(storeSessions[sid].messagesCount)
        /\ Len(getSessionMessages(storeMessages, sid)) = 2
        /\ IsNull(wsSessions[c])
        /\ c \notin connections

\* C8: a frame that does not parse or carries an unknown type tag gets one
\* session_update envelope with status error on its own connection; the
\* connection stays open and registered, and the connection-to-session map,
\* the store and the other connections' envelopes are unchanged.
C8_MalformedFrameRejected ==
    [][ \A c \in ConnIds :
            (ReceiveBadJson(c) \/ ReceiveNullJson(c) \/ \E tag \in UnknownTags : ReceiveUnknown(c, tag)) =>
                /\ Len(outbox'[c]) = Len(outbox[c]) + 1
                /\ SubSeq(outbox'[c], 1, Len(outbox[c])) = outbox[c]
                /\ IsErrorEnvelope(outbox'[c][Len(outbox'[c])])
                /\ \A d \in ConnIds \ {c} : outbox'[d] = outbox[d]
                /\ readyState'[c] = "OPEN"
                /\ c \in connections'
                /\ wsSessions' = wsSessions
                /\ storeSessions' = storeSessions
                /\ storeMessages' = storeMessages ]_vars

C8_Witness ==
    \E c \in ConnIds :
        /\ readyState[c] = "OPEN"
        /\ c \in connections
        /\ ~IsNull(wsSessions[c])
        /\ Len(outbox[c]) >= 2
        /\ IsErrorEnvelope(outbox[c][Len(outbox[c])])
        /\ outbox[c][Len(outbox[c])].message = "Unknown message type"

\* C9: in a turn the user Message is persisted before the conversation service
\* is called, the bot Message after the service has returned and before the
\* counters are updated, and the reply envelope is pushed only after the counter
\* update; a successful turn adds exactly one user Message and one bot Message,
\* the user Message first.
C9_TurnOrder ==
    \A t \in TaskIds :
        LET users == TurnMessages(t, "user")
            bots  == TurnMessages(t, "bot")
            pc    == tasks[t].pc
        IN
        /\ pc \in { "createdAS", "createdTM" } => users = {} /\ bots = {}
        /\ pc \in { "userSaved", "grammar", "reply" } =>
                Cardinality(users) = 1 /\ bots = {} /\ ~tasks[t].updated
        /\ pc \in { "botSaved", "gotSession" } =>
                Cardinality(users) = 1 /\ Cardinality(bots) = 1 /\ ~tasks[t].updated
        /\ tasks[t].updated => Cardinality(bots) = 1
        /\ pc # "done" => AllTurnEnvelopes(tasks[t].conn, t) = {}
        /\ TurnEnvelopes(tasks[t].conn, t, "text_message") # {} =>
                tasks[t].updated /\ tasks[t].result = "ok"
        /\ tasks[t].result = "ok" =>
                /\ Cardinality(users) = 1
                /\ Cardinality(bots) = 1
                /\ tasks[t].updated
                /\ \A i \in users, j \in bots : i < j
        /\ Cardinality({ i \in DOMAIN storeMessages : storeMessages[i].turn = t }) <= 2

C9_Witness ==
    \E t \in TaskIds :
        /\ tasks[t].result = "ok"
        /\ TurnEnvelopes(tasks[t].conn, t, "text_message") # {}
        /\ Cardinality(TurnMessages(t, "user")) = 1
        /\ Cardinality(TurnMessages(t, "bot")) = 1

\* The number of corrections of the turn of handler t, read from its bot Message
TurnCorrections(t) ==
    LET i == CHOOSE i \in TurnMessages(t, "bot") : TRUE IN Val(storeMessages[i].corrections)

\* C10 (as claimed): after a successful turn a correction envelope has been
\* pushed to the connection if and only if the turn had corrections.
C10_CorrectionIffCorrections ==
    \A t \in TaskIds : tasks[t].result = "ok" =>
        (TurnEnvelopes(tasks[t].conn, t, "correction") # {} <=> TurnCorrections(t) > 0)

\* C10 (amended): after a successful turn, a correction envelope has been
\* pushed if and only if the turn had corrections and its reply envelope was
\* pushed, that is, the connection was still open when the turn finished; the
\* correction envelope comes directly after the reply envelope of its turn,
\* and a connection that is still open has received the reply.
C10_CorrectionFollowsReply ==
    \A t \in TaskIds : tasks[t].result = "ok" =>
        LET c == tasks[t].conn
            replies == TurnEnvelopes(c, t, "text_message")
            corrs   == TurnEnvelopes(c, t, "correction")
        IN
        /\ Cardinality(replies) <= 1
        /\ Cardinality(corrs) <= 1
        /\ corrs # {} <=> (replies # {} /\ TurnCorrections(t) > 0)
        /\ \A i \in corrs : i - 1 \in replies
        /\ readyState[c] = "OPEN" => replies # {}
        /\ \A d \in ConnIds \ {c} : AllTurnEnvelopes(d, t) = {}

C10_Witness ==
    \E t, u \in TaskIds :
        /\ tasks[t].result = "ok" /\ tasks[u].result = "ok"
        /\ TurnCorrections(t) > 0
        /\ TurnEnvelopes(tasks[t].conn, t, "correction") # {}
        /\ TurnCorrections(u) = 0
        /\ TurnEnvelopes(tasks[u].conn, u, "text_message") # {}
        /\ TurnEnvelopes(tasks[u].conn, u, "correction") = {}

\* The envelopes with status recording on connection c
RecordingEnvelopes(c) ==
    { i \in DOMAIN outbox[c] :
        outbox[c][i].type = "session_update" /\ outbox[c][i].status = Some("recording") }

\* C24 (as stated): the recording envelopes pushed to a connection name a
\* session of the store created for it as guest and active, and a repeated
\* audio_start on the connection names the same session id as the first.
C24_AudioStartNamesOneSession ==
    \A c \in ConnIds :
        /\ \A i \in RecordingEnvelopes(c) :
            /\ ~IsNull(outbox[c][i].sessionId)
            /\ Val(outbox[c][i].sessionId) \in CreatedFor(c)
            /\ storeSessions[Val(outbox[c][i].sessionId)].userId = Some("guest")
            /\ storeSessions[Val(outbox[c][i].sessionId)].isActive = TRUE
        /\ \A i, j \in RecordingEnvelopes(c) : outbox[c][i].sessionId = outbox[c][j].sessionId

\* The handlers of text_message that created a session
CreatedByTextMessage(t) ==
    /\ ~IsNull(tasks[t].created)
    /\ tasks[t].pc # "createdAS"
    /\ tasks[t].result # "started"

\* C25: a text_message on a connection without a session creates a session;
\* when its turn begins the session is in the store and the connection is
\* mapped to it; the turn's user Message has the payload's text as content
\* and every Message of the turn carries the id of that session.
C25_TextMessageCreatesSessionFirst ==
    /\ [](\A t \in TaskIds : CreatedByTextMessage(t) =>
            /\ Val(tasks[t].created) \in DOMAIN storeSessions
            /\ storeSessions[Val(tasks[t].created)].userId = Some("guest")
            /\ tasks[t].pc \in { "userSaved", "grammar", "reply", "botSaved", "gotSession",
                                 "updated" } =>
                    /\ Cardinality(TurnMessages(t, "user")) = 1
                    /\ \A i \in TurnMessages(t, "user") :
                            storeMessages[i].content = tasks[t].text
            /\ \A i \in DOMAIN storeMessages :
                    storeMessages[i].turn = t => storeMessages[i].sessionId = Val(tasks[t].created))
    /\ [][\A t \in TaskIds : (tasks[t].pc = "createdTM" /\ tasks'[t].pc # "createdTM") =>
            /\ wsSessions'[tasks[t].conn] = tasks[t].created
            /\ Val(tasks[t].created) \in DOMAIN storeSessions
            /\ TurnMessages(t, "user") = {}]_vars

\* Two text_messages were handled on one connection that had no session, and
\* the turn of the second is at the provider with its user Message stored
C25_Witness ==
    \E t, u \in TaskIds :
        /\ t < u
        /\ tasks[t].conn = tasks[u].conn
        /\ CreatedByTextMessage(t) /\ CreatedByTextMessage(u)
        /\ tasks[u].pc = "grammar"
        /\ wsSessions[tasks[u].conn] = tasks[u].created
        /\ \E i \in TurnMessages(u, "user") :
                /\ storeMessages[i].content = Some(<< "I", "are", "happy" >>)
                /\ storeMessages[i].sessionId = 2

\* C26 (as stated): the user Message persisted for an audio_end turn has the
\* payload's transcribed text as its content.
C26_AudioEndKeepsTranscribedText ==
    (~IsNull(lastCall) /\ Val(lastCall).fn = "audio_end"
        /\ ~IsNull(Val(lastCall).transcribedText)) =>
        \A i \in TurnMessages(Val(lastCall).turn, "user") :
            storeMessages[i].content = Val(lastCall).transcribedText

\* C27: handling an audio_chunk creates no session, persists no Message,
\* leaves the connection-to-session map, the connections, the session
\* counters and the running handlers as they were, and pushes no envelope
\* to any connection.
C27_AudioChunkChangesNothing ==
    [][(lastCall' # lastCall /\ ~IsNull(lastCall') /\ Val(lastCall').fn = "audio_chunk") =>
        UNCHANGED << storeSessions, storeMessages, wsSessions, connections, readyState,
                     tasks, outbox, userProgress, storeTopics >>]_vars

\* An audio_chunk arrived on a connection that has a session
C27_Witness ==
    /\ ~IsNull(lastCall)
    /\ Val(lastCall).fn = "audio_chunk"
    /\ Val(lastCall).at = 2
    /\ wsSessions[Val(lastCall).conn] = Some(1)
    /\ Len(outbox[Val(lastCall).conn]) = 1

\* C30 (as stated): an envelope that carries a sessionId names, when it is
\* pushed, the session associated with the connection it is pushed to.
C30_EnvelopeNamesConnectionSession ==
    [][\A c \in ConnIds :
        \A i \in (DOMAIN outbox'[c]) \ (DOMAIN outbox[c]) :
            ~IsNull(outbox'[c][i].sessionId) => outbox'[c][i].sessionId = wsSessions'[c]]_vars

\* C32 (as stated): every connection that the connection-to-session map
\* has an entry for is registered.
C32_MappedConnectionsAreRegistered ==
    \A c \in ConnIds : ~IsNull(wsSessions[c]) => c \in connections

\* C33 (as stated): a handler that ended with an error envelope created no
\* Session and persisted no Message.
C33_ErrorLeavesStore ==
    \A t \in TaskIds : tasks[t].result \in { "failed", "threw" } =>
        /\ IsNull(tasks[t].created)
        /\ \A i \in DOMAIN storeMessages : storeMessages[i].turn # t
        /\ ~tasks[t].updated

\* C34: an audio_end on a connection without a session creates no session,
\* persists no Message, starts no turn (so the model is not called) and
\* pushes no envelope to any connection.
C34_AudioEndWithoutSessionDropped ==
    [][(lastCall' # lastCall /\ ~IsNull(lastCall') /\ Val(lastCall').fn = "audio_end"
            /\ IsNull(wsSessions[Val(lastCall').conn])) =>
        /\ Val(lastCall').turn = 0
        /\ UNCHANGED << storeSessions, storeMessages, wsSessions, connections, readyState,
                        tasks, outbox, calls, conversationHistory >>]_vars

\* An audio_end with a text arrived on a connection whose audio_start is
\* still creating its session
C34_Witness ==
    /\ ~IsNull(lastCall)
    /\ Val(lastCall).fn = "audio_end"
    /\ Val(lastCall).turn = 0
    /\ Val(lastCall).transcribedText = Some(<< "I", "are", "happy" >>)
    /\ IsNull(wsSessions[Val(lastCall).conn])
    /\ \E t \in TaskIds : tasks[t].conn = Val(lastCall).conn /\ tasks[t].pc = "createdAS"

(***************************************************************************)
(* The components at rest, for the specifications that exercise one        *)
(* component alone.                                                        *)
(***************************************************************************)
RelayIdle ==
    /\ connections = {}
    /\ wsSessions = [ c \in ConnIds |-> Null ]
    /\ readyState = [ c \in ConnIds |-> "NONE" ]
    /\ nextConn = 0
    /\ received = 0
    /\ tasks = << >>
    /\ outbox = [ c \in ConnIds |-> << >> ]

StoreIdle ==
    /\ storeSessions = << >>
    /\ storeMessages = << >>
    /\ userProgress = NewMap
    /\ clock = 0

ServiceIdle ==
    /\ conversationHistory = InitialHistory
    /\ calls = << >>
    /\ requests = << >>

(***************************************************************************)
(* Helper functions of the relay and of the conversation service, applied  *)
(* to inputs drawn from bounded sets.                                      *)
(***************************************************************************)
MaxWords == 10
MaxCount == 12
RandDen == 12

\* A text of n words
WordsOf(n) == [ i \in 1..n |-> "word" ]

\* Math.floor(Math.random() * n), Math.random() being rnd / RandDen
RandomIndex(rnd, n) == (rnd * n) \div RandDen

\* The session a turn reads before it updates the counters
FreshSession == NewSession(1, GuestDraft(Null))

\* The accuracy update of a turn on `text` with k corrections
ScoreInputs ==
    { [ fn |-> "score", text |-> WordsOf(n), corrections |-> k, result |-> Null ] :
        n \in 0..MaxWords, k \in 0..MaxCount }

ApplyScore ==
    /\ ~IsNull(lastCall)
    /\ Val(lastCall).fn = "score"
    /\ IsNull(Val(lastCall).result)
    /\ lastCall' = Some([ Val(lastCall) EXCEPT !.result =
            StatsUpdate(FreshSession, Val(lastCall).corrections, Val(lastCall).text).accuracyScore ])
    /\ UNCHANGED << relayVars, clientVars, storeTopics, storeVars, serviceVars >>

\* C11 (as stated): a turn on an utterance of W words with C corrections
\* scores clamp(round(100 * (1 - C / W)), 0, 100) when W > 0 and 100 when
\* the utterance is empty, and the score is an integer in 0..100.
C11_AccuracyFormula ==
    (~IsNull(lastCall) /\ Val(lastCall).fn = "score" /\ ~IsNull(Val(lastCall).result)) =>
        LET W == Len(Val(lastCall).text)
            C == Val(lastCall).corrections
            score == Val(Val(lastCall).result)
        IN  /\ score \in 0..100
            /\ W > 0 => score = Max(0, Min(100, RoundDiv(100 * (W - C), W)))
            /\ W = 0 => score = 100

\* The phrases generateEncouragement picks from (their emoji left out)
Encouragements ==
    << "Great job practicing! Keep it up!",
       "You're doing wonderfully! I can see your confidence growing!",
       "Excellent effort! Every conversation makes you better!",
       "Love your enthusiasm for learning!",
       "You're making fantastic progress!",
       "Keep up the amazing work! You're getting more fluent!" >>

PerfectTier == "Perfect! Your English is spot on! "
AlmostTier == "Almost perfect! Just small tweaks! "
EffortTier == "Good effort! We're learning together! "

\* Mutant of generateEncouragement: two corrections already fall in the last tier
generateEncouragementStrict(userText, k, rnd) ==
    LET phrase == Encouragements[RandomIndex(rnd, Len(Encouragements)) + 1]
    IN  IF k = 0 THEN << PerfectTier, phrase >>
        ELSE IF k < 2 THEN << AlmostTier, phrase >>
        ELSE << EffortTier, phrase >>

\* generateEncouragement: the tier sentence followed by a random phrase; k is
\* corrections.length, and the string is kept as its two parts
generateEncouragement(userText, k, rnd) ==
    LET phrase == Encouragements[RandomIndex(rnd, Len(Encouragements)) + 1]
    IN  IF k = 0 THEN << PerfectTier, phrase >>
        ELSE IF k <= 2 THEN << AlmostTier, phrase >>
        ELSE << EffortTier, phrase >>

EncouragementInputs ==
    { [ fn |-> "encouragement", text |-> WordsOf(n), corrections |-> k, rnd |-> r,
        result |-> Null ] : n \in {0, 3}, k \in 0..MaxCount, r \in 0..(RandDen - 1) }

ApplyEncouragement ==
    /\ ~IsNull(lastCall)
    /\ Val(lastCall).fn = "encouragement"
    /\ IsNull(Val(lastCall).result)
    /\ lastCall' = Some([ Val(lastCall) EXCEPT !.result =
            Some(generateEncouragement(Val(lastCall).text, Val(lastCall).corrections,
                                       Val(lastCall).rnd)) ])
    /\ UNCHANGED << relayVars, clientVars, storeTopics, storeVars, serviceVars >>

\* The `prompts` table of suggestNextPrompt
ServicePrompts ==
    [ topic \in { "daily-routines", "travel", "hobbies", "food-cooking", "books-movies" } |->
        CASE topic = "daily-routines" ->
                << "What's your favorite part of the day?",
                   "How has your routine changed recently?",
                   "What would you like to add to your daily routine?" >>
          [] topic = "travel" ->
                << "What type of traveler are you - adventurous or relaxed?",
                   "How do you usually plan your trips?",
                   "What's the most interesting person you've met while traveling?" >>
          [] topic = "hobbies" ->
                << "How much time do you spend on your hobbies each week?",
                   "Have you ever taught someone else your hobby?",
                   "What tools or equipment do you need for your hobby?" >>
          [] topic = "food-cooking" ->
                << "What's the most challenging dish you've ever tried to make?",
                   "Do you have any family recipes?",
                   "What's your go-to comfort food?" >>
          [] topic = "books-movies" ->
                << "What genre do you usually prefer and why?",
                   "Do you like to discuss stories with friends?",
                   "What makes a story memorable for you?" >> ]

\* Keys every object literal inherits from Object.prototype: the lookup
\* yields a function, which is truthy and has no indexed elements
InheritedKeys == { "constructor", "toString" }

\* prompts[topicId]: the list, an object without elements, or undefined
lookupPrompts(topicId) ==
    IF topicId \in DOMAIN ServicePrompts THEN Some(ServicePrompts[topicId])
    ELSE IF topicId \in InheritedKeys THEN Some(<< >>)
    ELSE Null

\* list[i] for a zero-based index: undefined outside the list
ElementAt(list, i) == IF i + 1 \in DOMAIN list THEN Some(list[i + 1]) ELSE Null

\* Mutant of pickPrompt: the index is rounded up instead of down
pickPromptCeil(list, rnd) == ElementAt(list, (rnd * Len(list) + RandDen - 1) \div RandDen)

\* topicPrompts[Math.floor(Math.random() * topicPrompts.length)]
pickPrompt(list, rnd) == ElementAt(list, RandomIndex(rnd, Len(list)))

\* suggestNextPrompt: `!topicId` holds for undefined and for the empty string
suggestNextPrompt(topicId, rnd) ==
    IF IsNull(topicId) \/ Val(topicId) = "" THEN Null
    ELSE LET topicPrompts == lookupPrompts(Val(topicId))
         IN  IF IsNull(topicPrompts) THEN Null ELSE pickPrompt(Val(topicPrompts), rnd)

PromptTopics ==
    { Null, Some(""), Some("sports") } \cup { Some(k) : k \in InheritedKeys }
        \cup { Some(k) : k \in CatalogTopicIds }

PromptInputs ==
    { [ fn |-> "prompt", topicId |-> tp, rnd |-> r, result |-> Null, returned |-> FALSE ] :
        tp \in PromptTopics, r \in 0..(RandDen - 1) }

ApplyPrompt ==
    /\ ~IsNull(lastCall)
    /\ Val(lastCall).fn = "prompt"
    /\ ~Val(lastCall).returned
    /\ lastCall' = Some([ Val(lastCall) EXCEPT
            !.result = suggestNextPrompt(Val(lastCall).topicId, Val(lastCall).rnd),
            !.returned = TRUE ])
    /\ UNCHANGED << relayVars, clientVars, storeTopics, storeVars, serviceVars >>

HelpersInit ==
    /\ RelayIdle
    /\ ClientIdle
    /\ storeTopics = CatalogTopicIds
    /\ StoreIdle
    /\ ServiceIdle
    /\ lastCall \in { Some(x) : x \in ScoreInputs \cup EncouragementInputs \cup PromptInputs }

HelpersNext ==
    \/ ApplyScore
    \/ ApplyEncouragement
    \/ ApplyPrompt

SpecHelpers == HelpersInit /\ [][HelpersNext]_vars

\* C18: the tier sentence of the encouragement depends on the correction
\* count alone: none gives the strongest praise, one or two the
\* almost-perfect tier, three or more the good-effort tier, whatever the
\* user text and the random phrase.
C18_TierByCount ==
    (~IsNull(lastCall) /\ Val(lastCall).fn = "encouragement" /\ ~IsNull(Val(lastCall).result)) =>
        LET k == Val(lastCall).corrections
            tier == Val(Val(lastCall).result)[1]
        IN  /\ k = 0 => tier = PerfectTier
            /\ k \in {1, 2} => tier = AlmostTier
            /\ k >= 3 => tier = EffortTier

\* Two corrections on a non-empty text, a phrase other than the first
C18_Witness ==
    /\ ~IsNull(lastCall)
    /\ Val(lastCall).fn = "encouragement"
    /\ ~IsNull(Val(lastCall).result)
    /\ Val(lastCall).corrections = 2
    /\ Val(lastCall).text # << >>
    /\ Val(Val(lastCall).result)[2] # Encouragements[1]

\* C19: a next prompt is returned exactly when a topic id was supplied and
\* is one of the seeded topics, and a returned prompt is one of that
\* topic's prompts in the service's table.
C19_PromptIffRecognized ==
    (~IsNull(lastCall) /\ Val(lastCall).fn = "prompt" /\ Val(lastCall).returned) =>
        LET tp == Val(lastCall).topicId
            res == Val(lastCall).result
            recognized == ~IsNull(tp) /\ Val(tp) \in CatalogTopicIds
        IN  /\ ~IsNull(res) <=> recognized
            /\ ~IsNull(res) =>
                    \E i \in DOMAIN ServicePrompts[Val(tp)] : ServicePrompts[Val(tp)][i] = Val(res)

\* The largest random draw on a seeded topic returns that topic's last prompt
C19_Witness ==
    /\ ~IsNull(lastCall)
    /\ Val(lastCall).fn = "prompt"
    /\ Val(lastCall).returned
    /\ Val(lastCall).topicId = Some("travel")
    /\ Val(lastCall).rnd = RandDen - 1
    /\ Val(lastCall).result = Some(ServicePrompts["travel"][3])

(***************************************************************************)
(* The session routes over MemStorage.                                     *)
(***************************************************************************)
MaxSessions == 2

\* Request bodies that insertSessionSchema accepts: every field is optional
\* and nullable; strings may be empty.
SessionDrafts ==
    [ userId           : { Null, Some(""), Some("guest") },
      topicId          : { Null, Some(""), Some("travel") },
      isActive         : { Null, Some(FALSE), Some(TRUE) },
      messagesCount    : { Null, Some(0), Some(5) },
      correctionsCount : { Null, Some(0) },
      accuracyScore    : { Null, Some(0) } ]

\* What a route answered: the arguments, the status and the JSON body
Answer(fn, arg, status, body) ==
    Some([ fn |-> fn, arg |-> arg, status |-> status, body |-> body ])

\* POST /api/sessions with a body the schema accepts
PostSession(draft) ==
    /\ Len(storeSessions) < MaxSessions
    /\ storeSessions' = createSession(storeSessions, draft)
    /\ lastCall' = Answer("postSession", Some(draft), 201,
                          Some(NewSession(FreshSessionId(storeSessions), draft)))
    /\ UNCHANGED << relayVars, clientVars, storeTopics, serviceVars, storeMessages, userProgress, clock >>

\* POST /api/sessions with a body the schema rejects: parse throws
PostSessionRejected ==
    /\ lastCall' = Answer("postSession", Null, 400, Null)
    /\ UNCHANGED << relayVars, clientVars, storeTopics, serviceVars, storeVars >>

\* GET /api/sessions/:id
GetSessionById(id) ==
    /\ lastCall' = LET session == getSession(storeSessions, id)
                   IN  IF IsNull(session) THEN Answer("getSession", Some(id), 404, Null)
                       ELSE Answer("getSession", Some(id), 200, session)
    /\ UNCHANGED << relayVars, clientVars, storeTopics, serviceVars, storeVars >>

SessionsInit ==
    /\ RelayIdle
    /\ ClientIdle
    /\ storeTopics = CatalogTopicIds
    /\ StoreIdle
    /\ ServiceIdle
    /\ lastCall = Null

SessionsNext ==
    \/ \E draft \in SessionDrafts : PostSession(draft)
    \/ PostSessionRejected
    \/ \E id \in 1..(MaxSessions + 1) : GetSessionById(id)

SpecSessions == SessionsInit /\ [][SessionsNext]_vars

Created == ~IsNull(lastCall) /\ Val(lastCall).fn = "postSession" /\ Val(lastCall).status = 201

\* C14 (as stated): after create(draft), get(id) returns a session whose
\* topicId, userId and isActive equal the draft's, also when the draft's
\* userId or topicId is absent or the empty string and when isActive is false.
C14_CreateThenGet ==
    Created =>
        LET draft == Val(Val(lastCall).arg)
            got == getSession(storeSessions, Val(Val(lastCall).body).id)
        IN  /\ ~IsNull(got)
            /\ Val(got).topicId = draft.topicId
            /\ Val(got).userId = draft.userId
            /\ ~IsNull(draft.isActive) => Val(got).isActive = Val(draft.isActive)

\* C15 (as stated): POST /sessions for user guest and topic travel, the
\* counters omitted or zero, returns a session with a generated id,
\* isActive = true and messagesCount = 0.
C15_PostSessionDefaults ==
    (/\ Created
     /\ Val(Val(lastCall).arg).userId = Some("guest")
     /\ Val(Val(lastCall).arg).topicId = Some("travel")
     /\ Val(Val(lastCall).arg).isActive \in { Null, Some(TRUE) }
     /\ Val(Val(lastCall).arg).messagesCount \in { Null, Some(0) }) =>
        LET session == Val(Val(lastCall).body)
        IN  /\ session.id \in DOMAIN storeSessions
            /\ session.isActive = TRUE
            /\ session.messagesCount = Some(0)

(***************************************************************************)
(* The message routes over MemStorage.  new Date() reads the wall clock,   *)
(* which may stand still between two calls and may be set back.            *)
(***************************************************************************)
MaxMessages == 3
MaxClock == 2

\* The :id of the message routes; no route checks that the session exists
MessageSessionIds == { 1, 2 }
MessageTypes == { "user", "bot" }

ClockAdvance ==
    /\ clock < MaxClock
    /\ clock' = clock + 1
    /\ UNCHANGED << relayVars, clientVars, storeTopics, serviceVars, storeSessions, storeMessages, userProgress, lastCall >>

ClockSetBack ==
    /\ clock > 0
    /\ clock' = clock - 1
    /\ UNCHANGED << relayVars, clientVars, storeTopics, serviceVars, storeSessions, storeMessages, userProgress, lastCall >>

\* The draft insertMessageSchema yields from { ...req.body, sessionId: req.params.id }
PostedDraft(sid, type) ==
    [ sessionId |-> sid, type |-> type, content |-> Some(<< "hello" >>),
      corrections |-> Null, turn |-> 0 ]

\* POST /api/sessions/:id/messages with a body the schema accepts
PostMessage(sid, type) ==
    /\ Len(storeMessages) < MaxMessages
    /\ storeMessages' = createMessage(storeMessages, PostedDraft(sid, type))
    /\ lastCall' = Answer("postMessage", Some(sid), 201,
                          Some(NewMessage(FreshMessageId(storeMessages), PostedDraft(sid, type), clock)))
    /\ UNCHANGED << relayVars, clientVars, storeTopics, serviceVars, storeSessions, userProgress, clock >>

\* POST /api/sessions/:id/messages with a body the schema rejects
PostMessageRejected(sid) ==
    /\ lastCall' = Answer("postMessage", Some(sid), 400, Null)
    /\ UNCHANGED << relayVars, clientVars, storeTopics, serviceVars, storeVars >>

\* GET /api/sessions/:id/messages
GetMessages(sid) ==
    /\ lastCall' = Answer("getMessages", Some(sid), 200, getSessionMessages(storeMessages, sid))
    /\ UNCHANGED << relayVars, clientVars, storeTopics, serviceVars, storeVars >>

MessagesInit ==
    /\ RelayIdle
    /\ ClientIdle
    /\ storeTopics = CatalogTopicIds
    /\ StoreIdle
    /\ ServiceIdle
    /\ lastCall = Null

MessagesNext ==
    \/ ClockAdvance
    \/ ClockSetBack
    \/ \E sid \in MessageSessionIds, type \in MessageTypes : PostMessage(sid, type)
    \/ \E sid \in MessageSessionIds : PostMessageRejected(sid)
    \/ \E sid \in MessageSessionIds : GetMessages(sid)

SpecMessages == MessagesInit /\ [][MessagesNext]_vars

Listed == ~IsNull(lastCall) /\ Val(lastCall).fn = "getMessages"

\* C16: list-messages(s) returns exactly the messages created with session
\* id s, each once, in non-decreasing order of timestamp.
C16_ListExactAndOrdered ==
    Listed =>
        LET sid == Val(Val(lastCall).arg)
            list == Val(lastCall).body
            stored == { storeMessages[i].id : i \in { j \in DOMAIN storeMessages :
                                                        storeMessages[j].sessionId = sid } }
        IN  /\ { list[i].id : i \in DOMAIN list } = stored
            /\ \A i \in DOMAIN list : list[i] = storeMessages[list[i].id]
            /\ \A i, j \in DOMAIN list : i # j => list[i].id # list[j].id
            /\ \A i, j \in DOMAIN list : i < j => list[i].timestamp <= list[j].timestamp

\* A listing of two messages that were stored in the opposite order of their
\* timestamps, while the store also holds a message of another session
C16_Witness ==
    /\ Listed
    /\ Len(Val(lastCall).body) = 2
    /\ Val(lastCall).body[1].id > Val(lastCall).body[2].id
    /\ \E i \in DOMAIN storeMessages : storeMessages[i].sessionId # Val(Val(lastCall).arg)

(***************************************************************************)
(* The progress routes over MemStorage.                                    *)
(***************************************************************************)
UserIds == { "alice", "bob" }

\* Map.get(key), as a nullable
mapGet(m, key) ==
    IF \E i \in DOMAIN m : m[i].key = key
    THEN Some(m[CHOOSE i \in DOMAIN m : m[i].key = key].value)
    ELSE Null

\* Map.set(key, value): an existing entry keeps its place, a new one goes last
mapSet(m, key, value) ==
    IF \E i \in DOMAIN m : m[i].key = key
    THEN [ i \in DOMAIN m |-> IF m[i].key = key THEN [ key |-> key, value |-> value ] ELSE m[i] ]
    ELSE Append(m, [ key |-> key, value |-> value ])

\* randomUUID(): an identifier no progress record was created with
FreshProgressId(m) == Len(m) + 1

\* The literal's own fields, before the two spreads
ProgressDefaults(id, userId) ==
    [ id |-> id, userId |-> userId, totalSessions |-> 0, totalMinutes |-> 0, streak |-> 0,
      lastSessionDate |-> Null, avgAccuracy |-> 0, achievements |-> << >> ]

\* `existing?.id || randomUUID()`
ExistingIdOr(existing, fresh) ==
    IF ~IsNull(existing) /\ Val(existing).id # 0 THEN Val(existing).id ELSE fresh

\* Mutant of MergedProgress: the stored record is replaced, not merged
ReplacedProgress(m, userId, progress) ==
    Merge(ProgressDefaults(FreshProgressId(m), userId), progress)

\* { id, userId, <defaults>, ...existing, ...progress }
MergedProgress(m, userId, progress) ==
    LET existing == mapGet(m, userId)
        own == ProgressDefaults(ExistingIdOr(existing, FreshProgressId(m)), userId)
    IN  Merge(IF IsNull(existing) THEN own ELSE Merge(own, Val(existing)), progress)

updateUserProgress(m, userId, progress) == mapSet(m, userId, MergedProgress(m, userId, progress))

\* A record without fields
NoFields == [ f \in {} |-> 0 ]

\* Bodies of PATCH /api/progress/:userId: any subset of the fields
ProgressPartials ==
    { NoFields,
      [ totalSessions |-> 3 ],
      [ streak |-> 2, totalSessions |-> 0 ],
      [ id |-> 77 ],
      [ userId |-> "bob" ] }

\* The partial GET /api/progress/:userId upserts for a new user
ZeroProgress ==
    [ totalSessions |-> 0, totalMinutes |-> 0, streak |-> 0, avgAccuracy |-> 0,
      achievements |-> << >> ]

\* The arguments of an upsert and the record it found
UpsertArg(userId, progress) ==
    Some([ user |-> userId, partial |-> progress, before |-> mapGet(userProgress, userId) ])

\* GET /api/progress/:userId
GetProgress(userId) ==
    /\ IF IsNull(mapGet(userProgress, userId))
       THEN /\ userProgress' = updateUserProgress(userProgress, userId, ZeroProgress)
            /\ lastCall' = Answer("getProgress", UpsertArg(userId, ZeroProgress), 200,
                                  MergedProgress(userProgress, userId, ZeroProgress))
       ELSE /\ UNCHANGED userProgress
            /\ lastCall' = Answer("getProgress", UpsertArg(userId, NoFields), 200,
                                  Val(mapGet(userProgress, userId)))
    /\ UNCHANGED << relayVars, clientVars, storeTopics, serviceVars, storeSessions, storeMessages, clock >>

\* PATCH /api/progress/:userId
PatchProgress(userId, progress) ==
    /\ userProgress' = updateUserProgress(userProgress, userId, progress)
    /\ lastCall' = Answer("patchProgress", UpsertArg(userId, progress), 200,
                          MergedProgress(userProgress, userId, progress))
    /\ UNCHANGED << relayVars, clientVars, storeTopics, serviceVars, storeSessions, storeMessages, clock >>

\* Each session is filed under its own id
SessionsFiledUnderOwnId ==
    \A id \in DOMAIN storeSessions : storeSessions[id].id = id

\* Each progress record is filed under its own userId
ProgressFiledUnderOwnUserId ==
    \A i \in DOMAIN userProgress : userProgress[i].value.userId = userProgress[i].key

\* C39 (as stated): each session is filed under its own id and each progress
\* record under its own userId.
C39_FiledUnderOwnKey == SessionsFiledUnderOwnId /\ ProgressFiledUnderOwnUserId

ProgressInit ==
    /\ RelayIdle
    /\ ClientIdle
    /\ storeTopics = CatalogTopicIds
    /\ StoreIdle
    /\ ServiceIdle
    /\ lastCall = Null

ProgressNext ==
    \/ \E u \in UserIds : GetProgress(u)
    \/ \E u \in UserIds, p \in ProgressPartials : PatchProgress(u, p)

SpecProgress == ProgressInit /\ [][ProgressNext]_vars

Upserted == ~IsNull(lastCall) /\ Val(lastCall).fn \in { "getProgress", "patchProgress" }

CounterFields == { "totalSessions", "totalMinutes", "streak", "avgAccuracy" }

\* C20: an upsert for a user without a record creates one whose
\* unspecified counters are zero; for a user with a record every field
\* absent from the partial keeps its prior value, the id included, and
\* every field present takes the new value; the merged record is the one
\* the store holds for the user, and no user id has two entries.
C20_UpsertMerges ==
    /\ \A i, j \in DOMAIN userProgress : userProgress[i].key = userProgress[j].key => i = j
    /\ Upserted =>
        LET arg == Val(Val(lastCall).arg)
            rec == Val(lastCall).body
        IN  /\ mapGet(userProgress, arg.user) = Some(rec)
            /\ \A f \in DOMAIN arg.partial : rec[f] = arg.partial[f]
            /\ IsNull(arg.before) =>
                    \A f \in CounterFields \ DOMAIN arg.partial : rec[f] = 0
            /\ ~IsNull(arg.before) =>
                    \A f \in DOMAIN rec \ DOMAIN arg.partial : rec[f] = Val(arg.before)[f]

\* An update of totalSessions alone on a record whose streak was set
\* earlier, while the other user has a record too
C20_Witness ==
    /\ Upserted
    /\ Val(lastCall).fn = "patchProgress"
    /\ ~IsNull(Val(Val(lastCall).arg).before)
    /\ Val(Val(Val(lastCall).arg).before).streak = 2
    /\ Val(Val(lastCall).arg).partial = [ totalSessions |-> 3 ]
    /\ Val(lastCall).body.streak = 2
    /\ Val(lastCall).body.id = Val(Val(Val(lastCall).arg).before).id
    /\ Len(userProgress) = 2

(***************************************************************************)
(* OpenAIService.processUserMessage on the exported singleton.  The method *)
(* suspends at the analysis call and at the reply call; calls made by      *)
(* different handlers overlap, and all of them share conversationHistory.  *)
(***************************************************************************)
MaxCalls == 2
MaxPrior == 5
ContextSize == 10

\* The two entries an earlier, finished call i left in the history
PriorEntries(i) ==
    << [ role |-> "user", content |-> << "earlier" >>, call |-> 0 - i ],
       [ role |-> "assistant", content |-> << "reply" >>, call |-> 0 - i ] >>

RECURSIVE PriorHistory(_)
\* The history after n calls that ran one after the other
PriorHistory(n) ==
    IF n = 0 THEN InitialHistory ELSE PriorHistory(n - 1) \o PriorEntries(n)

\* conversationHistory.push({ role: 'user', content: userText })
pushUser(h, text, c) == Append(h, [ role |-> "user", content |-> text, call |-> c ])

\* conversationHistory.push({ role: 'assistant', content: reply })
pushAssistant(h, reply, c) == Append(h, [ role |-> "assistant", content |-> reply, call |-> c ])

\* conversationHistory.slice(-10)
contextOf(h) ==
    IF Len(h) <= ContextSize THEN h ELSE SubSeq(h, Len(h) - ContextSize + 1, Len(h))

\* What the analysis call came to: a parsed list of k corrections, a parsed
\* object without a corrections field, output that JSON.parse rejects, or a
\* rejected provider call
AnalysisOutcomes ==
    { [ kind |-> "list", k |-> k ] : k \in 0..MaxCorr }
        \cup { [ kind |-> x, k |-> 0 ] : x \in { "nofield", "unparseable", "rejected" } }

\* Mutant of analyzeGrammar: a failed analysis reports one correction
analyzeGrammarFailing(outcome) == IF outcome.kind = "list" THEN outcome.k ELSE 1

\* analyzeGrammar: corrections.length of what it returns; the catch and
\* `result.corrections || []` both give the empty list
analyzeGrammar(outcome) == IF outcome.kind = "list" THEN outcome.k ELSE 0

\* response.choices[0].message.content || ""
replyOrEmpty(content) == IF IsNull(content) THEN << >> ELSE Val(content)

\* message.content of the reply call: a text or null
ReplyContents == { Null, Some(<< "reply" >>) }

\* A call's argument userText, its position, its local corrections.length,
\* and as bookkeeping what the analysis came to, the context handed to the
\* reply call, how the call ended and the reply it returned.  The optional
\* topicId only selects the next prompt (suggestNextPrompt) and the
\* corrections only select the encouragement (generateEncouragement).
\* session: the session of the relay turn that makes the call; the call
\* itself is not given it
NewCall(sid, text) ==
    [ session |-> sid, text |-> text, pc |-> "grammar", analysis |-> "none", corr |-> 0,
      context |-> Null, outcome |-> "none", reply |-> << >> ]

NextCall == Len(calls) + 1

\* processUserMessage up to `await this.analyzeGrammar(userText)`
ServiceCall(sid, text) ==
    /\ Len(calls) < MaxCalls
    /\ conversationHistory' = pushUser(conversationHistory, text, NextCall)
    /\ calls' = Append(calls, NewCall(sid, text))
    /\ UNCHANGED << relayVars, clientVars, storeTopics, storeVars, requests, lastCall >>

\* analyzeGrammar returns; the reply call is issued with the context
AnalysisReturns(c, outcome) ==
    /\ c \in DOMAIN calls
    /\ calls[c].pc = "grammar"
    /\ calls' = [ calls EXCEPT ![c].pc = "reply",
                               ![c].analysis = outcome.kind,
                               ![c].corr = analyzeGrammar(outcome),
                               ![c].context = Some(contextOf(conversationHistory)) ]
    /\ UNCHANGED << relayVars, clientVars, storeTopics, storeVars, conversationHistory, requests, lastCall >>

\* The reply call resolves: the reply is pushed and the response returned
ServiceReplyReturns(c, content) ==
    /\ c \in DOMAIN calls
    /\ calls[c].pc = "reply"
    /\ conversationHistory' = pushAssistant(conversationHistory, replyOrEmpty(content), c)
    /\ calls' = [ calls EXCEPT ![c].pc = "done",
                               ![c].outcome = "returned",
                               ![c].reply = replyOrEmpty(content) ]
    /\ UNCHANGED << relayVars, clientVars, storeTopics, storeVars, requests, lastCall >>

\* The reply call rejects: the catch throws 'Failed to process message with AI'
ServiceReplyFails(c) ==
    /\ c \in DOMAIN calls
    /\ calls[c].pc = "reply"
    /\ calls' = [ calls EXCEPT ![c].pc = "done", ![c].outcome = "threw" ]
    /\ UNCHANGED << relayVars, clientVars, storeTopics, storeVars, conversationHistory, requests, lastCall >>

\* The sessions whose turns call the service
CallerSessions == { 1, 2 }

ServiceInit ==
    /\ RelayIdle
    /\ ClientIdle
    /\ storeTopics = CatalogTopicIds
    /\ StoreIdle
    /\ \E n \in 0..MaxPrior : conversationHistory = PriorHistory(n)
    /\ calls = << >>
    /\ requests = << >>
    /\ lastCall = Null

ServiceNext ==
    \/ \E sid \in CallerSessions, text \in Texts : ServiceCall(sid, text)
    \/ \E c \in 1..MaxCalls, outcome \in AnalysisOutcomes : AnalysisReturns(c, outcome)
    \/ \E c \in 1..MaxCalls, content \in ReplyContents : ServiceReplyReturns(c, content)
    \/ \E c \in 1..MaxCalls : ServiceReplyFails(c)

SpecService == ServiceInit /\ [][ServiceNext]_vars

\* C13: when the analysis call fails or its output cannot be parsed, the
\* call goes on to the reply call with no corrections, and when that reply
\* call succeeds processUserMessage returns the generated reply, which is
\* also the entry it appends to the history.
C13_AnalysisFailureIsSoft ==
    \A c \in DOMAIN calls :
        calls[c].analysis \in { "unparseable", "rejected" } =>
            /\ calls[c].corr = 0
            /\ ~IsNull(calls[c].context)
            /\ calls[c].pc \in { "reply", "done" }
            /\ calls[c].outcome = "returned" =>
                    /\ calls[c].reply \in { replyOrEmpty(x) : x \in ReplyContents }
                    /\ \E i \in DOMAIN conversationHistory :
                            conversationHistory[i] =
                                [ role |-> "assistant", content |-> calls[c].reply, call |-> c ]

\* Both kinds of analysis failure, each followed by a generated reply
C13_Witness ==
    \E c, d \in DOMAIN calls :
        /\ calls[c].analysis = "rejected"
        /\ calls[d].analysis = "unparseable"
        /\ calls[c].outcome = "returned"
        /\ calls[d].outcome = "returned"
        /\ calls[c].reply = << "reply" >>

\* C31 (as stated): every entry of the context passed to the model for a
\* call that a call of this run pushed was pushed by a call of the same
\* session.
C31_ContextOfOwnSession ==
    \A c \in DOMAIN calls :
        ~IsNull(calls[c].context) =>
            \A i \in DOMAIN Val(calls[c].context) :
                LET entry == Val(calls[c].context)[i]
                IN  entry.call \in DOMAIN calls =>
                        calls[entry.call].session = calls[c].session

\* C17 (as stated): the context passed to the model is at most the ten most
\* recent history entries in their original order, and its last entry is the
\* user turn of the call being processed, however concurrent calls interleave.
C17_ContextEndsWithOwnTurn ==
    \A c \in DOMAIN calls :
        ~IsNull(calls[c].context) =>
            LET ctx == Val(calls[c].context)
            IN  /\ Len(ctx) <= ContextSize
                /\ \E off \in 0..Len(conversationHistory) :
                        /\ off + Len(ctx) <= Len(conversationHistory)
                        /\ \A i \in DOMAIN ctx : ctx[i] = conversationHistory[off + i]
                /\ ctx[Len(ctx)] = [ role |-> "user", content |-> calls[c].text, call |-> c ]

(***************************************************************************)
(* POST /api/conversation/message.  Each request builds its own            *)
(* OpenAIService, so its history is the request's own.                     *)
(***************************************************************************)
MaxRequests == 2

\* req.body.message and req.body.sessionId: absent, empty or present
BodyMessages == { Null, Some(<< >>) } \cup { Some(x) : x \in Texts }
BodySessionIds == { Null, Some(""), Some("s1"), Some("1") }

\* The session of the store a body's sessionId names, if it names one
namedSession(sessionId) ==
    IF sessionId = Some("1") /\ 1 \in DOMAIN storeSessions THEN Some(1) ELSE Null

\* `!message || !sessionId`
missingFields(message, sessionId) ==
    \/ IsNull(message) \/ Val(message) = << >>
    \/ IsNull(sessionId) \/ Val(sessionId) = ""

\* res.status(400).json({ error: "Message and sessionId required" })
requiredAnswer ==
    [ status |-> 400, kind |-> "error", reply |-> << >>, corrections |-> Null,
      encouragement |-> Null ]

\* res.json({ reply, corrections, encouragement }) of a processed message
processedAnswer(reply, k, encouragement) ==
    [ status |-> 200, kind |-> "processed", reply |-> reply, corrections |-> Some(k),
      encouragement |-> Some(encouragement) ]

\* Mutant of fallbackAnswer: the failure is reported as a server error
fallbackAnswerAsError(message) ==
    [ status |-> 500, kind |-> "error", reply |-> << >>, corrections |-> Null,
      encouragement |-> Null ]

\* The catch: `Thank you for saying: "${req.body.message}". ...`, no corrections
fallbackAnswer(message) ==
    [ status |-> 200, kind |-> "fallback",
      reply |-> << "Thank", "you", "for", "saying:" >> \o Val(message)
                    \o << "That's", "excellent", "English", "practice!" >>,
      corrections |-> Some(0),
      encouragement |-> Some(<< "Keep practicing - you're doing great!" >>) ]

\* A request: its body, its position, the history of its own service, the
\* corrections found, whether processing failed, and the response sent
NewRequest(message, sessionId, pc, response) ==
    [ message |-> message, sessionId |-> sessionId, pc |-> pc, history |-> << >>,
      corr |-> 0, failed |-> FALSE, response |-> response ]

\* The handler up to `await import("./services/openai.js")`
PostConversation(message, sessionId) ==
    /\ Len(requests) < MaxRequests
    /\ requests' = Append(requests,
            IF missingFields(message, sessionId)
            THEN NewRequest(message, sessionId, "done", Some(requiredAnswer))
            ELSE NewRequest(message, sessionId, "import", Null))
    /\ UNCHANGED << relayVars, clientVars, storeTopics, storeVars, conversationHistory, calls, lastCall >>

AtRequest(r, pc) == r \in DOMAIN requests /\ requests[r].pc = pc

\* The import resolves: new OpenAIService(), then processUserMessage(message)
\* up to its analysis call
ImportResolves(r) ==
    /\ AtRequest(r, "import")
    /\ requests' = [ requests EXCEPT ![r].pc = "grammar",
            ![r].history = pushUser(InitialHistory, Val(requests[r].message), r) ]
    /\ UNCHANGED << relayVars, clientVars, storeTopics, storeVars, conversationHistory, calls, lastCall >>

\* The import rejects (the module cannot be loaded): the catch answers
ImportFails(r) ==
    /\ AtRequest(r, "import")
    /\ requests' = [ requests EXCEPT ![r].pc = "done", ![r].failed = TRUE,
            ![r].response = Some(fallbackAnswer(requests[r].message)) ]
    /\ UNCHANGED << relayVars, clientVars, storeTopics, storeVars, conversationHistory, calls, lastCall >>

ConversationAnalysisReturns(r, outcome) ==
    /\ AtRequest(r, "grammar")
    /\ requests' = [ requests EXCEPT ![r].pc = "reply", ![r].corr = analyzeGrammar(outcome) ]
    /\ UNCHANGED << relayVars, clientVars, storeTopics, storeVars, conversationHistory, calls, lastCall >>

\* Mutant of conversationMessages: the reply is filed under the session named
conversationMessagesFiled(ms, request) ==
    IF IsNull(namedSession(request.sessionId)) THEN ms
    ELSE createMessage(ms, [ sessionId |-> Val(namedSession(request.sessionId)), type |-> "bot",
                             content |-> Some(<< "reply" >>), corrections |-> Some(request.corr),
                             turn |-> 0 ])

\* The store's messages after the route has answered: it makes no storage call
conversationMessages(ms, request) == ms

\* processUserMessage returns and the route sends its reply and corrections
ConversationReplyReturns(r, content, rnd) ==
    /\ AtRequest(r, "reply")
    /\ storeMessages' = conversationMessages(storeMessages, requests[r])
    /\ requests' = [ requests EXCEPT ![r].pc = "done",
            ![r].history = pushAssistant(@, replyOrEmpty(content), r),
            ![r].response = Some(processedAnswer(replyOrEmpty(content), requests[r].corr,
                generateEncouragement(Val(requests[r].message), requests[r].corr, rnd))) ]
    /\ UNCHANGED << relayVars, clientVars, storeTopics, storeSessions, userProgress, clock,
                    conversationHistory, calls, lastCall >>

\* processUserMessage throws: the catch answers
ConversationReplyFails(r) ==
    /\ AtRequest(r, "reply")
    /\ requests' = [ requests EXCEPT ![r].pc = "done", ![r].failed = TRUE,
            ![r].response = Some(fallbackAnswer(requests[r].message)) ]
    /\ UNCHANGED << relayVars, clientVars, storeTopics, storeVars, conversationHistory, calls, lastCall >>

ConversationInit ==
    /\ RelayIdle
    /\ ClientIdle
    /\ storeTopics = CatalogTopicIds
    /\ StoreIdle
    /\ ServiceIdle
    /\ lastCall = Null

ConversationNext ==
    \/ \E m \in BodyMessages, sid \in BodySessionIds : PostConversation(m, sid)
    \/ \E r \in 1..MaxRequests : ImportResolves(r)
    \/ \E r \in 1..MaxRequests : ImportFails(r)
    \/ \E r \in 1..MaxRequests, outcome \in AnalysisOutcomes : ConversationAnalysisReturns(r, outcome)
    \/ \E r \in 1..MaxRequests, content \in ReplyContents, rnd \in 0..(RandDen - 1) :
            ConversationReplyReturns(r, content, rnd)
    \/ \E r \in 1..MaxRequests : ConversationReplyFails(r)

SpecConversation == ConversationInit /\ [][ConversationNext]_vars

\* C12: a request with a non-empty message and sessionId is never answered
\* with an error status, and when processing failed the body is the canned
\* fallback: a non-empty reply and an empty corrections list.
C12_ConversationAlwaysAnswers ==
    \A r \in DOMAIN requests :
        (~missingFields(requests[r].message, requests[r].sessionId)
            /\ ~IsNull(requests[r].response)) =>
                LET response == Val(requests[r].response)
                IN  /\ response.status = 200
                    /\ requests[r].failed =>
                            /\ response.kind = "fallback"
                            /\ response.reply # << >>
                            /\ response.corrections = Some(0)

\* One request answered with the fallback after its reply call failed, one
\* answered with the processed reply and a correction
C12_Witness ==
    \E r, q \in DOMAIN requests :
        /\ requests[r].failed
        /\ requests[r].history # << >>
        /\ ~IsNull(requests[r].response)
        /\ Val(requests[r].response).kind = "fallback"
        /\ ~IsNull(requests[q].response)
        /\ Val(requests[q].response).kind = "processed"
        /\ Val(requests[q].response).corrections = Some(1)

(***************************************************************************)
(* The REST routes over sessions, messages and topics together.            *)
(***************************************************************************)
\* Bodies of POST /api/sessions used here
RestDrafts ==
    { GuestDraft(tp) : tp \in NullableTopics }
        \cup { [ GuestDraft(Null) EXCEPT !.isActive = Some(FALSE) ] }

\* Bodies of PATCH /api/sessions/:id: any subset of the session's fields
SessionPatches ==
    { NoFields,
      [ topicId |-> Some("travel") ],
      [ isActive |-> FALSE, accuracyScore |-> Some(90) ],
      [ id |-> 2 ] }

\* The arguments of an update and the record it found
PatchArg(id, updates) ==
    Some([ id |-> id, partial |-> updates, before |-> getSession(storeSessions, id) ])

\* PATCH /api/sessions/:id
PatchSession(id, updates) ==
    /\ storeSessions' = updateSession(storeSessions, id, updates)
    /\ lastCall' = LET session == updatedSession(storeSessions, id, updates)
                   IN  IF IsNull(session)
                       THEN Answer("patchSession", PatchArg(id, updates), 404, Null)
                       ELSE Answer("patchSession", PatchArg(id, updates), 200, session)
    /\ UNCHANGED << relayVars, clientVars, storeTopics, serviceVars, storeMessages,
                    userProgress, clock >>

\* The :id of GET /api/topics/:id: a seeded topic or an unknown one
TopicRequestIds == { "travel", "sports" }

\* getTopic: this.topics.get(id), as a nullable
getTopic(topics, id) == IF id \in topics THEN Some(id) ELSE Null

\* GET /api/topics/:id
GetTopic(id) ==
    /\ lastCall' = LET topic == getTopic(storeTopics, id)
                   IN  IF IsNull(topic) THEN Answer("getTopic", Some(id), 404, Null)
                       ELSE Answer("getTopic", Some(id), 200, topic)
    /\ UNCHANGED << relayVars, clientVars, storeTopics, serviceVars, storeVars >>

RestInit ==
    /\ RelayIdle
    /\ ClientIdle
    /\ storeTopics = CatalogTopicIds
    /\ StoreIdle
    /\ ServiceIdle
    /\ lastCall = Null

RestNext ==
    \/ \E draft \in RestDrafts : PostSession(draft)
    \/ PostSessionRejected
    \/ \E id \in 1..(MaxSessions + 1) : GetSessionById(id)
    \/ \E id \in 1..(MaxSessions + 1), updates \in SessionPatches : PatchSession(id, updates)
    \/ \E sid \in MessageSessionIds : PostMessage(sid, "user")
    \/ \E sid \in MessageSessionIds : PostMessageRejected(sid)
    \/ \E sid \in MessageSessionIds : GetMessages(sid)
    \/ \E id \in TopicRequestIds : GetTopic(id)

SpecRest == RestInit /\ [][RestNext]_vars

Answered(fns) == ~IsNull(lastCall) /\ Val(lastCall).fn \in fns

\* C21: a request on a session or topic that does not exist is answered 404,
\* a request whose body the schema rejects is answered 400 without a
\* record, and a request answered 400 or 404 leaves the sessions, the
\* messages, the topics and the progress records as they were.
C21_RejectedChangesNothing ==
    /\ [](Answered({ "getSession" }) =>
            (Val(Val(lastCall).arg) \notin DOMAIN storeSessions <=> Val(lastCall).status = 404))
    /\ [](Answered({ "patchSession" }) =>
            (IsNull(Val(Val(lastCall).arg).before) <=> Val(lastCall).status = 404))
    /\ [](Answered({ "getTopic" }) =>
            (Val(Val(lastCall).arg) \notin storeTopics <=> Val(lastCall).status = 404))
    /\ [](Answered({ "postSession", "postMessage" }) =>
            (IsNull(Val(lastCall).body) <=> Val(lastCall).status = 400))
    /\ [][(lastCall' # lastCall /\ Val(lastCall').status \in { 400, 404 }) =>
            UNCHANGED << storeSessions, storeMessages, storeTopics, userProgress >>]_vars

\* An update of an unknown session is refused while the store holds a
\* session and a message
C21_Witness ==
    /\ Answered({ "patchSession" })
    /\ Val(lastCall).status = 404
    /\ Val(Val(lastCall).arg).partial # NoFields
    /\ Len(storeSessions) = 1
    /\ Len(storeMessages) = 1

\* C28: an update of an existing session stores and returns the session
\* with the partial's fields overriding and every other field as before,
\* and leaves the other sessions and all messages untouched; an update of
\* an unknown id returns not-found and changes nothing.
C28_UpdateMerges ==
    /\ [](Answered({ "patchSession" }) =>
            LET arg == Val(Val(lastCall).arg)
            IN  IF IsNull(arg.before)
                THEN Val(lastCall).status = 404 /\ arg.id \notin DOMAIN storeSessions
                ELSE /\ Val(lastCall).status = 200
                     /\ storeSessions[arg.id] = Val(Val(lastCall).body)
                     /\ \A f \in DOMAIN arg.partial : Val(Val(lastCall).body)[f] = arg.partial[f]
                     /\ \A f \in DOMAIN Val(Val(lastCall).body) \ DOMAIN arg.partial :
                            Val(Val(lastCall).body)[f] = Val(arg.before)[f])
    /\ [][(lastCall' # lastCall /\ Val(lastCall').fn = "patchSession") =>
            /\ storeMessages' = storeMessages
            /\ Len(storeSessions') = Len(storeSessions)
            /\ \A j \in DOMAIN storeSessions :
                    j # Val(Val(lastCall').arg).id => storeSessions'[j] = storeSessions[j]
            /\ Val(lastCall').status = 404 => storeSessions' = storeSessions]_vars

\* The second of two sessions is updated while the first has a message
C28_Witness ==
    /\ Answered({ "patchSession" })
    /\ Val(lastCall).status = 200
    /\ Val(Val(lastCall).arg).id = 2
    /\ Val(Val(lastCall).arg).partial = [ isActive |-> FALSE, accuracyScore |-> Some(90) ]
    /\ Val(Val(Val(lastCall).arg).before).isActive = TRUE
    /\ Val(Val(lastCall).body).topicId = Some("travel")
    /\ Len(storeMessages) = 1

\* C29 (as stated): the session a persisted Message names exists in the
\* store.  Sessions are never removed, so a session that is missing now was
\* missing when the Message was created.
C29_MessageSessionExists ==
    \A i \in DOMAIN storeMessages : storeMessages[i].sessionId \in DOMAIN storeSessions

(***************************************************************************)
(* The voice client: VoiceChat and SimpleSpeechRecognition.                *)
(*                                                                         *)
(* uiState is the component's state as of its latest render.  A function   *)
(* of the component reads the state of the render that created it, so a    *)
(* pending permission request, timer, send or recognizer callback carries  *)
(* that render with it.  recognizer.listening is the wrapper's isListening *)
(* flag; recognizer.engine is the browser's recognition: running after     *)
(* start(), stopping from stop() or an error until its end event, idle     *)
(* after the end event.                                                    *)
(***************************************************************************)
MaxClientTasks == 2

voiceFrame == << relayVars, storeVars, storeTopics, serviceVars, lastCall, hookVars >>

RemoveAt(seq, i) == SubSeq(seq, 1, i - 1) \o SubSeq(seq, i + 1, Len(seq))

CanSpawn == Len(clientTasks) < MaxClientTasks

\* SimpleSpeechRecognition.stop
stop(r) ==
    IF r.listening
    THEN [ r EXCEPT !.listening = FALSE,
                    !.engine = IF @ = "running" THEN "stopping" ELSE @ ]
    ELSE r

\* recognition.start() throws while the recognition has not ended
startThrows(r) == stop(r).engine # "idle"

\* SimpleSpeechRecognition.start with the callbacks of one render: it stops
\* first when already listening, installs the callbacks and starts the engine
start(r, render) ==
    IF startThrows(r)
    THEN [ stop(r) EXCEPT !.listening = FALSE, !.render = render ]
    ELSE [ stop(r) EXCEPT !.listening = TRUE, !.engine = "running", !.render = render ]

\* startVoiceSession's onError callback, and its catch block
sessionFailed(ui) == [ ui EXCEPT !.isListening = FALSE, !.voiceSessionActive = FALSE ]

\* startVoiceSession from `setIsListening(true)` on
beginListening(ui, r) == IF startThrows(r) THEN sessionFailed(ui)
                         ELSE [ ui EXCEPT !.isListening = TRUE ]

\* A call of handleDirectTextInput suspended in its 800 ms delay
SendTask(render, origin) ==
    [ kind |-> "send", pc |-> "thinking", render |-> render, origin |-> origin,
      corrections |-> FALSE ]

TimerTask(kind, render) ==
    [ kind |-> kind, pc |-> "timer", render |-> render, origin |-> "voice",
      corrections |-> FALSE ]

PermissionTask(render) ==
    [ kind |-> "start", pc |-> "permission", render |-> render, origin |-> "voice",
      corrections |-> FALSE ]

AtClient(i, kind, pc) ==
    i \in DOMAIN clientTasks /\ clientTasks[i].kind = kind /\ clientTasks[i].pc = pc

\* handleMicClick.  The button is rendered in voice mode and disabled while
\* the AI speaks.  A click during a session stops it; otherwise the session
\* is marked active and startVoiceSession suspends in getUserMedia, because
\* the render it belongs to has voiceSessionActive false.
MicClick ==
    /\ ~uiState.useTextMode
    /\ ~uiState.isSpeaking
    /\ IF uiState.voiceSessionActive
       THEN /\ uiState' = [ uiState EXCEPT !.voiceSessionActive = FALSE, !.isListening = FALSE ]
            /\ recognizer' = stop(recognizer)
            /\ UNCHANGED clientTasks
       ELSE /\ CanSpawn
            /\ uiState' = [ uiState EXCEPT !.voiceSessionActive = TRUE ]
            /\ clientTasks' = Append(clientTasks, PermissionTask(uiState))
            /\ UNCHANGED recognizer
    /\ UNCHANGED voiceFrame

\* getUserMedia resolves: startVoiceSession sets isListening and starts the
\* recognizer with the callbacks of its render
PermissionGranted(i) ==
    /\ AtClient(i, "start", "permission")
    /\ uiState' = beginListening(uiState, recognizer)
    /\ recognizer' = start(recognizer, clientTasks[i].render)
    /\ clientTasks' = RemoveAt(clientTasks, i)
    /\ UNCHANGED voiceFrame

\* getUserMedia rejects: startVoiceSession's catch
PermissionDenied(i) ==
    /\ AtClient(i, "start", "permission")
    /\ uiState' = sessionFailed(uiState)
    /\ clientTasks' = RemoveAt(clientTasks, i)
    /\ UNCHANGED << recognizer, voiceFrame >>

\* recognition.onresult with a final, non-empty transcript: onResult arms the
\* 1200 ms auto-send timer
RecognitionResult ==
    /\ recognizer.engine = "running"
    /\ CanSpawn
    /\ clientTasks' = Append(clientTasks, TimerTask("autosend", recognizer.render))
    /\ UNCHANGED << uiState, recognizer, voiceFrame >>

\* recognition.onend: the wrapper clears its flag and calls onEnd, which
\* clears isListening and arms the 100 ms restart timer when the
\* voiceSessionActive of its render is set
onEndTasks(ts, render) ==
    IF render.voiceSessionActive THEN Append(ts, TimerTask("restart", render)) ELSE ts

onend ==
    /\ recognizer' = [ recognizer EXCEPT !.listening = FALSE, !.engine = "idle" ]
    /\ uiState' = [ uiState EXCEPT !.isListening = FALSE ]
    /\ clientTasks' = onEndTasks(clientTasks, recognizer.render)
    /\ UNCHANGED voiceFrame

\* The browser ends a running recognition by itself
RecognitionEnds ==
    /\ recognizer.engine = "running"
    /\ onend

\* The end event that follows stop() or an error
RecognitionStopped ==
    /\ recognizer.engine = "stopping"
    /\ onend

\* recognition.onerror: the wrapper clears its flag and calls onError; the
\* end event follows
RecognitionError ==
    /\ recognizer.engine = "running"
    /\ recognizer' = [ recognizer EXCEPT !.listening = FALSE, !.engine = "stopping" ]
    /\ uiState' = sessionFailed(uiState)
    /\ UNCHANGED << clientTasks, voiceFrame >>

\* A timer fires.  The auto-send timer calls handleDirectTextInput of its
\* render; the restart timer calls startVoiceSession of its render when that
\* render has voiceSessionActive set and isSpeaking clear.
TimerFires(i) ==
    /\ i \in DOMAIN clientTasks
    /\ clientTasks[i].pc = "timer"
    /\ LET render == clientTasks[i].render IN
        IF clientTasks[i].kind = "autosend"
        THEN /\ clientTasks' = [ clientTasks EXCEPT ![i] = SendTask(render, "voice") ]
             /\ UNCHANGED << uiState, recognizer >>
        ELSE /\ clientTasks' = RemoveAt(clientTasks, i)
             /\ IF render.voiceSessionActive /\ ~render.isSpeaking
                THEN /\ uiState' = beginListening(uiState, recognizer)
                     /\ recognizer' = start(recognizer, render)
                ELSE UNCHANGED << uiState, recognizer >>
    /\ UNCHANGED voiceFrame

\* handleDirectTextInput: the 800 ms delay is over and the fetch is issued
ThinkingDone(i) ==
    /\ AtClient(i, "send", "thinking")
    /\ clientTasks' = [ clientTasks EXCEPT ![i].pc = "fetch" ]
    /\ UNCHANGED << uiState, recognizer, voiceFrame >>

\* `if (speechRecognitionRef.current && isListening)`: the recognizer is
\* stopped when the isListening of the handler's render is set
stopBeforeSpeaking(r, render) == IF render.isListening THEN stop(r) ELSE r

\* The state after the stop check and `setIsSpeaking(true)`
speakingUi(ui, render) ==
    [ (IF render.isListening THEN sessionFailed(ui) ELSE ui) EXCEPT !.isSpeaking = TRUE ]

\* handleDirectTextInput: the fetch settles (with the API's answer or the
\* offline fallback), the bot message is shown and, when the useTextMode of
\* the handler's render is clear, the reply is handed to textToSpeech
FetchSettles(i, corrections) ==
    /\ AtClient(i, "send", "fetch")
    /\ LET render == clientTasks[i].render IN
        IF ~render.useTextMode
        THEN /\ recognizer' = stopBeforeSpeaking(recognizer, render)
             /\ uiState' = speakingUi(uiState, render)
             /\ clientTasks' = [ clientTasks EXCEPT ![i].pc = "speaking",
                                                    ![i].corrections = corrections ]
        ELSE /\ clientTasks' = RemoveAt(clientTasks, i)
             /\ UNCHANGED << uiState, recognizer >>
    /\ UNCHANGED voiceFrame

\* utterance.onend: the corrections are spoken next if there are any;
\* otherwise `setIsSpeaking(false)`
SpeechEnds(i) ==
    /\ \/ AtClient(i, "send", "speaking")
       \/ AtClient(i, "send", "speakingCorrections")
    /\ IF clientTasks[i].pc = "speaking" /\ clientTasks[i].corrections
       THEN /\ clientTasks' = [ clientTasks EXCEPT ![i].pc = "speakingCorrections" ]
            /\ UNCHANGED uiState
       ELSE /\ clientTasks' = RemoveAt(clientTasks, i)
            /\ uiState' = [ uiState EXCEPT !.isSpeaking = FALSE ]
    /\ UNCHANGED << recognizer, voiceFrame >>

\* utterance.onerror, also after speechSynthesis.cancel(): the catch, then
\* `setIsSpeaking(false)`
SpeechFails(i) ==
    /\ \/ AtClient(i, "send", "speaking")
       \/ AtClient(i, "send", "speakingCorrections")
       \/ AtClient(i, "send", "cancelled")
    /\ clientTasks' = RemoveAt(clientTasks, i)
    /\ uiState' = [ uiState EXCEPT !.isSpeaking = FALSE ]
    /\ UNCHANGED << recognizer, voiceFrame >>

\* stopSpeech: the utterances being spoken are cancelled
stopSpeech(ts) ==
    [ i \in DOMAIN ts |->
        IF ts[i].pc \in { "speaking", "speakingCorrections" }
        THEN [ ts[i] EXCEPT !.pc = "cancelled" ] ELSE ts[i] ]

\* handlePause; the button is enabled while isSpeaking
Pause ==
    /\ ~uiState.useTextMode
    /\ uiState.isSpeaking
    /\ clientTasks' = stopSpeech(clientTasks)
    /\ uiState' = [ uiState EXCEPT !.isSpeaking = FALSE ]
    /\ UNCHANGED << recognizer, voiceFrame >>

\* handleStop; the button is enabled while isListening or isSpeaking
Stop ==
    /\ ~uiState.useTextMode
    /\ uiState.isListening \/ uiState.isSpeaking
    /\ recognizer' = IF uiState.isListening THEN stop(recognizer) ELSE recognizer
    /\ clientTasks' = IF uiState.isSpeaking THEN stopSpeech(clientTasks) ELSE clientTasks
    /\ uiState' = [ uiState EXCEPT !.isListening = FALSE, !.isSpeaking = FALSE ]
    /\ UNCHANGED voiceFrame

\* The mode toggle: setUseTextMode(!useTextMode)
ToggleMode ==
    /\ uiState' = [ uiState EXCEPT !.useTextMode = ~@ ]
    /\ UNCHANGED << recognizer, clientTasks, voiceFrame >>

\* handleSendText; the input is rendered in text mode and disabled while
\* the AI speaks
SendText ==
    /\ uiState.useTextMode
    /\ ~uiState.isSpeaking
    /\ CanSpawn
    /\ clientTasks' = Append(clientTasks, SendTask(uiState, "typed"))
    /\ UNCHANGED << uiState, recognizer, voiceFrame >>

VoiceInit ==
    /\ RelayIdle
    /\ ClientIdle
    /\ storeTopics = CatalogTopicIds
    /\ StoreIdle
    /\ ServiceIdle
    /\ lastCall = Null

\* The steps the user and the browser's recognition take when they choose
VoiceEvents ==
    \/ MicClick
    \/ RecognitionResult
    \/ RecognitionEnds
    \/ RecognitionError
    \/ Pause
    \/ Stop
    \/ ToggleMode
    \/ SendText

\* The steps that follow by themselves: promises settle, timers fire, the
\* end event follows a stop, an utterance comes to its end
VoiceProgress ==
    \/ \E i \in 1..MaxClientTasks : PermissionGranted(i)
    \/ \E i \in 1..MaxClientTasks : PermissionDenied(i)
    \/ RecognitionStopped
    \/ \E i \in 1..MaxClientTasks : TimerFires(i)
    \/ \E i \in 1..MaxClientTasks : ThinkingDone(i)
    \/ \E i \in 1..MaxClientTasks, corrections \in BOOLEAN : FetchSettles(i, corrections)
    \/ \E i \in 1..MaxClientTasks : SpeechEnds(i)
    \/ \E i \in 1..MaxClientTasks : SpeechFails(i)

VoiceNext == VoiceEvents \/ VoiceProgress

SpecVoice == VoiceInit /\ [][VoiceNext]_vars

\* Every pending promise, timer and event is eventually delivered; the user
\* and the recognition's own ending are under no obligation
SpecVoiceFair == SpecVoice /\ WF_vars(VoiceProgress)

\* The reply of an auto-sent transcript is being spoken
SpeakingReply(i) ==
    /\ clientTasks[i].kind = "send"
    /\ clientTasks[i].origin = "voice"
    /\ clientTasks[i].pc \in { "speaking", "speakingCorrections" }

\* C22 (as stated): while the reply to an auto-sent transcript is being
\* spoken, speech recognition is not listening.
C22_NotListeningWhileSpeaking ==
    \A i \in DOMAIN clientTasks : SpeakingReply(i) => recognizer.engine # "running"

\* C23 (as stated): whenever the voice session is active, the AI is not
\* speaking and recognition has ended, recognition is eventually listening
\* again, unless the user stops the session or the AI starts to speak.
C23_ListeningResumes ==
    (uiState.voiceSessionActive /\ ~uiState.isSpeaking /\ recognizer.engine = "idle")
        ~> (recognizer.engine = "running" \/ ~uiState.voiceSessionActive \/ uiState.isSpeaking)

(***************************************************************************)
(* POST /api/conversation/message next to the routes that fill the store.  *)
(***************************************************************************)
ConversationStoreNext ==
    \/ ConversationNext
    \/ PostSession(GuestDraft(Null))
    \/ PostMessage(1, "user")

SpecConversationStore == ConversationInit /\ [][ConversationStoreNext]_vars

\* C38: no step of a conversation request, from its arrival to its answer,
\* creates or changes a Session, a Message or a progress record, whether the
\* request is refused, processed or answered with the fallback and whether
\* or not its sessionId names a session of the store.
C38_ConversationLeavesStore ==
    [][requests' # requests =>
        UNCHANGED << storeSessions, storeMessages, userProgress, storeTopics >>]_vars

\* With session 1 and a message of it in the store, one request naming
\* session 1 was processed and one naming no session got the fallback
C38_Witness ==
    /\ Len(storeSessions) >= 1
    /\ Len(storeMessages) >= 1
    /\ \E r, q \in DOMAIN requests :
        /\ requests[r].sessionId = Some("1")
        /\ ~IsNull(requests[r].response)
        /\ Val(requests[r].response).kind = "processed"
        /\ requests[q].sessionId = Some("s1")
        /\ requests[q].failed

(***************************************************************************)
(* The client hook useWebSocket.                                           *)
(*                                                                         *)
(* A socket is CONNECTING until its open event, CLOSING from close() until *)
(* its close event, and CLOSED after it.  A socket that never opened       *)
(* closes with code 1006; one that opened closes with 1000 or 1006.        *)
(***************************************************************************)
MaxSockets == 5
maxReconnectAttempts == 3

hookFrame ==
    << relayVars, storeVars, storeTopics, serviceVars, lastCall, uiState, recognizer,
       clientTasks >>

Live(s) == hookSockets[s].readyState \in { "CONNECTING", "OPEN" }

\* Mutant of alreadyConnected: connect() always goes on
alreadyConnectedNever(h, ss) == FALSE

\* connect's guard: socketRef.current is OPEN or CONNECTING
alreadyConnected(h, ss) ==
    ~IsNull(h.socketRef) /\ ss[Val(h.socketRef)].readyState \in { "CONNECTING", "OPEN" }

\* connect(): the hook afterwards
connectHook(h, ss) ==
    IF alreadyConnected(h, ss) THEN h
    ELSE [ h EXCEPT !.isConnecting = TRUE, !.socketRef = Some(Len(ss) + 1) ]

\* connect(): the sockets afterwards
connectSockets(h, ss) ==
    IF alreadyConnected(h, ss) THEN ss ELSE Append(ss, NewSocket)

CanConnect == alreadyConnected(hook, hookSockets) \/ Len(hookSockets) < MaxSockets

\* connect() called by the component
HookConnect ==
    /\ CanConnect
    /\ hook' = [ connectHook(hook, hookSockets) EXCEPT !.quiet = FALSE ]
    /\ hookSockets' = connectSockets(hook, hookSockets)
    /\ UNCHANGED << hookTimers, hookFrame >>

\* `socketRef.current.readyState <= WebSocket.OPEN`
closable(h, ss) ==
    ~IsNull(h.socketRef) /\ ss[Val(h.socketRef)].readyState \in { "CONNECTING", "OPEN" }

\* clearTimeout(reconnectTimeoutRef.current)
clearTimeout(ts, ref) == IF IsNull(ref) THEN ts ELSE ts \ { Val(ref) }

\* disconnect(), also the unmount cleanup
HookDisconnect ==
    /\ hookTimers' = clearTimeout(hookTimers, hook.reconnectTimeoutRef)
    /\ hookSockets' = IF closable(hook, hookSockets)
                      THEN [ hookSockets EXCEPT ![Val(hook.socketRef)].readyState = "CLOSING" ]
                      ELSE hookSockets
    /\ hook' = [ hook EXCEPT !.shouldReconnect = FALSE,
                             !.socketRef = IF closable(hook, hookSockets) THEN Null ELSE @,
                             !.isConnected = FALSE, !.isConnecting = FALSE,
                             !.quiet = TRUE ]
    /\ UNCHANGED hookFrame

\* socket.onopen
SocketOpens(s) ==
    /\ s \in DOMAIN hookSockets
    /\ hookSockets[s].readyState = "CONNECTING"
    /\ hookSockets' = [ hookSockets EXCEPT ![s].readyState = "OPEN", ![s].opened = TRUE ]
    /\ hook' = [ hook EXCEPT !.isConnected = TRUE, !.isConnecting = FALSE,
                             !.reconnectAttempts = 0 ]
    /\ UNCHANGED << hookTimers, hookFrame >>

\* socket.onerror
SocketError(s) ==
    /\ s \in DOMAIN hookSockets
    /\ hookSockets[s].readyState \in { "CONNECTING", "OPEN" }
    /\ hook.isConnecting
    /\ hook' = [ hook EXCEPT !.isConnecting = FALSE ]
    /\ UNCHANGED << hookSockets, hookTimers, hookFrame >>

\* Mutant of mayReconnect: the number of attempts is not limited
mayReconnectUnlimited(h, code) == h.shouldReconnect /\ code # 1000

\* onclose's condition for arming the reconnect timer
mayReconnect(h, code) ==
    h.shouldReconnect /\ code # 1000 /\ h.reconnectAttempts < maxReconnectAttempts

CloseCodes(s) == IF hookSockets[s].opened THEN { 1000, 1006 } ELSE { 1006 }

\* socket.onclose with the close event's code
SocketCloses(s, code) ==
    /\ s \in DOMAIN hookSockets
    /\ hookSockets[s].readyState # "CLOSED"
    /\ code \in CloseCodes(s)
    /\ hookSockets' = [ hookSockets EXCEPT ![s].readyState = "CLOSED" ]
    /\ LET cleared == [ hook EXCEPT !.isConnected = FALSE, !.isConnecting = FALSE,
                                    !.socketRef = IF @ = Some(s) THEN Null ELSE @,
                                    !.quiet = IF code = 1000 THEN TRUE ELSE @ ]
       IN  IF mayReconnect(hook, code)
           THEN /\ hook' = [ cleared EXCEPT !.reconnectAttempts = @ + 1,
                                            !.scheduled = @ + 1,
                                            !.reconnectTimeoutRef = Some(hook.scheduled + 1) ]
                /\ hookTimers' = hookTimers \cup { hook.scheduled + 1 }
           ELSE /\ hook' = cleared
                /\ UNCHANGED hookTimers
    /\ UNCHANGED hookFrame

\* A reconnect timer fires: `if (shouldReconnectRef.current) connect()`
ReconnectTimerFires(t) ==
    /\ t \in hookTimers
    /\ ~hook.shouldReconnect \/ CanConnect
    /\ hookTimers' = hookTimers \ { t }
    /\ IF hook.shouldReconnect
       THEN /\ hook' = connectHook(hook, hookSockets)
            /\ hookSockets' = connectSockets(hook, hookSockets)
       ELSE UNCHANGED << hook, hookSockets >>
    /\ UNCHANGED hookFrame

HookInit ==
    /\ RelayIdle
    /\ ClientIdle
    /\ storeTopics = CatalogTopicIds
    /\ StoreIdle
    /\ ServiceIdle
    /\ lastCall = Null

HookNext ==
    \/ HookConnect
    \/ HookDisconnect
    \/ \E s \in 1..MaxSockets : SocketOpens(s)
    \/ \E s \in 1..MaxSockets : SocketError(s)
    \/ \E s \in 1..MaxSockets, code \in { 1000, 1006 } : SocketCloses(s, code)
    \/ \E t \in 1..MaxSockets : ReconnectTimerFires(t)

SpecHook == HookInit /\ [][HookNext]_vars

\* C35 (as stated): from a call of disconnect() or a close with code 1000
\* until the next call of connect(), no socket is created.
C35_NoReconnectAfterCleanClose ==
    [][(hook.quiet /\ hook'.quiet) => Len(hookSockets') = Len(hookSockets)]_vars

NeverOpened == \A s \in DOMAIN hookSockets : ~hookSockets[s].opened

\* C36: the attempt counter never exceeds 3; as long as no socket has opened
\* it counts the reconnect timers armed, so at most 3 are armed; when every
\* socket is closed and no timer is pending, isConnecting is false; and the
\* counter goes back to 0 only in a step in which a socket opens.
C36_ReconnectAttemptsBounded ==
    /\ [](hook.reconnectAttempts <= maxReconnectAttempts)
    /\ [](NeverOpened => (hook.scheduled = hook.reconnectAttempts /\ hook.scheduled <= 3))
    /\ []((hookTimers = {} /\ \A s \in DOMAIN hookSockets : hookSockets[s].readyState = "CLOSED")
            => ~hook.isConnecting)
    /\ [][hook'.reconnectAttempts < hook.reconnectAttempts =>
            /\ hook'.reconnectAttempts = 0
            /\ \E s \in DOMAIN hookSockets :
                    hookSockets[s].readyState = "CONNECTING"
                        /\ hookSockets'[s].readyState = "OPEN"]_vars

\* Four sockets in a row closed without opening: three timers were armed,
\* the last close armed none, and the hook is at rest
C36_Witness ==
    /\ NeverOpened
    /\ Len(hookSockets) = 4
    /\ \A s \in DOMAIN hookSockets : hookSockets[s].readyState = "CLOSED"
    /\ hook.shouldReconnect
    /\ hook.scheduled = 3
    /\ hookTimers = {}
    /\ ~hook.isConnecting

\* C37: at most one socket is CONNECTING or OPEN, it is the one socketRef
\* refers to, and socketRef refers to no socket but the latest created.
C37_OneLiveSocket ==
    /\ Cardinality({ s \in DOMAIN hookSockets : Live(s) }) <= 1
    /\ \A s \in DOMAIN hookSockets : Live(s) => hook.socketRef = Some(s)
    /\ ~IsNull(hook.socketRef) => Val(hook.socketRef) = Len(hookSockets)

\* After a disconnect and a connect the old socket is still closing while
\* the new one is open and a reconnect timer of an earlier close is pending
C37_Witness ==
    /\ \E s \in DOMAIN hookSockets : hookSockets[s].readyState = "CLOSING"
    /\ \E s \in DOMAIN hookSockets : hookSockets[s].readyState = "OPEN" /\ hook.socketRef = Some(s)
    /\ hookTimers # {}

====
